---- MODULE Spec2Model ----
(***************************************************************************)
(* VisionTags: credit ledger, job orchestration, analysis queue / worker   *)
(* and catalog sync, modelled as state machines over the persisted rows    *)
(* (ShopSettings, UsageRecord, Job, Product) and the BullMQ task records.  *)
(*                                                                         *)
(* Every await of a handler is a separate step, so that two handlers of    *)
(* the same shop interleave exactly where the Node event loop lets them.   *)
(***************************************************************************)
EXTENDS Integers, Sequences, FiniteSets, TLC

(***************************************************************************)
(* Bounds of the model                                                     *)
(***************************************************************************)
\* concurrent start-scan requests of the shop
NumReqs == 2
\* billing periods: resetCredits / upgradeToProPlan stamp a new period start
MaxPeriod == 1
\* concurrent callers of the overage build of the billing service
NumCallers == 2

(***************************************************************************)
(* Program constants                                                       *)
(***************************************************************************)
\* PLANS.FREE.credits
FREE_credits == 50
\* PLANS.PRO.credits
PRO_credits == 2000
\* PLANS.PRO.overagePrice, 0.01 dollars, in cents
overagePrice == 1
\* PLANS.PRO.overageCap, 50 dollars, in cents
overageCap == 5000
\* defaultJobOptions.attempts
attempts == 3
\* defaultJobOptions.removeOnComplete: finished records kept, newest first
removeOnComplete == 100
\* defaultJobOptions.removeOnFail
removeOnFail == 50
\* Worker options: concurrency
concurrency == 2

Reqs == 1..NumReqs
Callers == 1..NumCallers
\* a Worker with one slot more than the option gives it
Slots_oneMore == 1..(concurrency + 1)

\* the slots of the Worker: it runs at most `concurrency` processors at a time
Slots == 1..concurrency

\* String(n) of a number, as the sequence of its decimal digits
Digits == <<"0", "1", "2", "3", "4", "5", "6", "7", "8", "9">>

RECURSIVE NumStr(_)
NumStr(n) ==
  IF n < 10 THEN <<Digits[n + 1]>>
  ELSE NumStr(n \div 10) \o <<Digits[(n % 10) + 1]>>

\* Shopify product ids, gid://shopify/Product/<n>, as sequences of characters
\* (shortened to g://P/<n>: the unsafe characters are kept at their places).
Gid(n) == <<"g", ":", "/", "/", "P", "/">> \o NumStr(n)
Catalog == {Gid(1), Gid(2), Gid(3)}

NoJob == 0

Min(a, b) == IF a <= b THEN a ELSE b
Max(a, b) == IF a >= b THEN a ELSE b

(***************************************************************************)
(* State                                                                   *)
(***************************************************************************)
VARIABLES
  settings,     \* the shop's ShopSettings row
  usageCount,   \* the shop's UsageRecord.count of the current month
  jobs,         \* Job table: sequence of rows, a Job's id is its index
  products,     \* Product table: function from Product.id to its row
  tasks,        \* BullMQ records of queue "vision-analysis", by task id
  req,          \* the start-scan requests in flight, by request
  ov,           \* callers of the overage build of the billing service
  wk,           \* the processor invocations of the Worker, by slot
  sy,           \* the sync request in flight
  writes,       \* the field-group writes issued to the Shopify catalog
  admitted,     \* per task id, how often the queue created a record for it
  dispatched,   \* per task id, how often the processor was invoked for it
  proc,         \* the server process: the singletons of queue.server.ts
  call          \* the call of a service function in progress, its locals

ledgerVars == <<settings, usageCount>>
storeVars == <<jobs, products, tasks>>
queueLog == <<admitted, dispatched>>
vars ==
  <<settings, usageCount, jobs, products, tasks, req, ov, wk, sy, writes,
    admitted, dispatched, proc, call>>

(***************************************************************************)
(* billing.server.ts (hard cap build)                                      *)
(***************************************************************************)
\* getShopBilling(shop).creditsRemaining
creditsRemaining(s) == s.creditLimit - s.creditsUsed

\* hasAvailableCredits(shop, required): boolean
hasAvailableCredits(s, required) == creditsRemaining(s) >= required

\* hasAvailableCredits(shop, required) of the managed pricing build of the
\* service: an object {allowed}
hasAvailableCreditsManaged(s, required) ==
  [allowed |-> creditsRemaining(s) >= required]

\* ToBoolean of an object: true, whatever its fields hold
objectToBoolean(o) == TRUE

\* The builds of ../services/billing.server the routes are linked with: the
\* hard cap build and the managed pricing build (whose exports the billing
\* page and the tests of the service use).  Their useCredits, resetCredits
\* and plan changes are the same.
BillingBuilds == {"hardCap", "managed"}

\* the truth value of `hasCredits` in the routes' test `if (!hasCredits)`
hasCreditsTruthy(build, s, required) ==
  IF build = "hardCap" THEN hasAvailableCredits(s, required)
  ELSE objectToBoolean(hasAvailableCreditsManaged(s, required))

\* useCredits, the check on the row it read: TRUE when the call is rejected
useCreditsRejects(s, count) == s.creditsUsed + count > s.creditLimit

\* useCredits, the row it writes: creditsUsed is set to the value computed
\* from the row read earlier (an absolute value, no increment)
useCreditsUpdate(cur, s, count) ==
  [cur EXCEPT !.creditsUsed = s.creditsUsed + count]

\* resetCredits
resetCreditsUpdate(cur) ==
  [cur EXCEPT !.creditsUsed = 0, !.billingPeriodStart = @ + 1]

\* upgradeToProPlan
upgradeToProPlanUpdate(cur) ==
  [cur EXCEPT !.plan = "PRO", !.creditLimit = PRO_credits,
              !.creditsUsed = 0, !.billingPeriodStart = @ + 1]

\* downgradeToFreePlan
downgradeToFreePlanUpdate(cur) ==
  [cur EXCEPT !.plan = "FREE", !.creditLimit = FREE_credits,
              !.autoSyncNewProducts = FALSE]

(***************************************************************************)
(* billing.server.ts (overage build)                                       *)
(***************************************************************************)
\* PLANS[plan].overageEnabled
overageEnabled(plan) == plan = "PRO"

\* 'overagePrice' in planConfig ? planConfig.overagePrice : 0
planOveragePrice(plan) == IF plan = "PRO" THEN overagePrice ELSE 0

\* 'overageCap' in planConfig ? planConfig.overageCap : 0
planOverageCap(plan) == IF plan = "PRO" THEN overageCap ELSE 0

\* getShopBilling(shop), the fields the admission check reads
getShopBillingOverage(s) ==
  LET overageScans == Max(0, s.creditsUsed - s.creditLimit) IN
  [creditsRemaining |-> Max(0, s.creditLimit - s.creditsUsed),
   overageScans |-> overageScans,
   overageCharge |->
     Min(overageScans * planOveragePrice(s.plan), planOverageCap(s.plan)),
   overageEnabled |-> overageEnabled(s.plan),
   overageCap |-> planOverageCap(s.plan)]

\* The values of overageScans in 0..5000 at which the double precision
\* evaluation of Math.floor((50 - overageScans * 0.01) / 0.01) is
\* 4999 - overageScans, one less than the exact quotient: 0.01 is no binary
\* fraction, and the quotient is rounded to just below the integer.  At all
\* other values in 0..5000 the evaluation is exact, as are
\* overageScans * 0.01 > 50 (true exactly above 5000) and the Math.min.
FloorLosesOne ==
  {
   423, 448, 473, 498, 523, 548, 573, 598, 623, 648, 673, 698, 723, 748,
   773, 798, 812, 823, 837, 848, 862, 873, 887, 898, 906, 909, 912, 913,
   917, 920, 923, 924, 931, 934, 937, 938, 942, 945, 948, 949, 956, 959,
   962, 963, 967, 970, 973, 974, 981, 984, 987, 988, 992, 995, 998, 999,
   1006, 1009, 1012, 1013, 1017, 1020, 1023, 1024, 1031, 1034, 1037, 1038, 1042, 1045,
   1048, 1049, 1056, 1059, 1062, 1063, 1067, 1070, 1073, 1074, 1081, 1084, 1087, 1088,
   1092, 1095, 1098, 1099, 1106, 1109, 1112, 1113, 1117, 1120, 1123, 1124, 1131, 1134,
   1137, 1138, 1142, 1145, 1148, 1149, 1156, 1159, 1162, 1163, 1167, 1170, 1173, 1174,
   1181, 1184, 1187, 1188, 1192, 1195, 1198, 1199, 1206, 1209, 1212, 1213, 1217, 1220,
   1223, 1224, 1231, 1234, 1237, 1238, 1242, 1245, 1248, 1249, 1256, 1259, 1262, 1263,
   1267, 1270, 1273, 1274, 1281, 1284, 1287, 1288, 1292, 1295, 1298, 1299, 1306, 1309,
   1312, 1313, 1317, 1320, 1323, 1324, 1331, 1334, 1337, 1338, 1342, 1345, 1348, 1349,
   1356, 1359, 1362, 1363, 1367, 1370, 1373, 1374, 1381, 1384, 1387, 1388, 1392, 1395,
   1398, 1399, 1406, 1409, 1412, 1413, 1417, 1420, 1423, 1424, 1431, 1434, 1437, 1438,
   1442, 1445, 1448, 1449, 1456, 1459, 1462, 1463, 1467, 1470, 1473, 1474, 1481, 1484,
   1487, 1488, 1492, 1495, 1498, 1499, 1506, 1509, 1512, 1513, 1517, 1520, 1523, 1524,
   1531, 1534, 1537, 1538, 1542, 1545, 1548, 1549, 1556, 1559, 1562, 1563, 1567, 1570,
   1573, 1574, 1581, 1584, 1587, 1588, 1592, 1595, 1598, 1599, 1601, 1606, 1609, 1612,
   1617, 1620, 1623, 1624, 1626, 1631, 1634, 1637, 1642, 1645, 1648, 1649, 1651, 1656,
   1659, 1662, 1667, 1670, 1673, 1674, 1676, 1681, 1684, 1687, 1692, 1695, 1698, 1699,
   1701, 1706, 1709, 1712, 1715, 1717, 1720, 1723, 1724, 1726, 1731, 1734, 1737, 1740,
   1742, 1745, 1748, 1749, 1751, 1756, 1759, 1762, 1765, 1767, 1770, 1773, 1774, 1776,
   1781, 1784, 1787, 1790, 1792, 1795, 1798, 1799, 1808, 1815, 1817, 1824, 1833, 1840,
   1842, 1849, 1858, 1865, 1867, 1874, 1883, 1890, 1892, 1899, 1908, 1915, 1917, 1924,
   1933, 1940, 1942, 1949, 1958, 1965, 1967, 1974, 1983, 1990, 1992, 1999, 2008, 2015,
   2017, 2024, 2033, 2040, 2042, 2049, 2058, 2065, 2067, 2074, 2083, 2090, 2092, 2099,
   2108, 2115, 2117, 2124, 2133, 2140, 2142, 2149, 2158, 2165, 2167, 2174, 2183, 2190,
   2192, 2199, 2208, 2215, 2217, 2224, 2233, 2240, 2242, 2249, 2258, 2265, 2267, 2274,
   2283, 2290, 2299, 2308, 2315, 2324, 2333, 2340, 2349, 2358, 2365, 2374, 2383, 2390,
   2399, 2406, 2408, 2415, 2424, 2431, 2433, 2440, 2449, 2456, 2458, 2465, 2474, 2481,
   2483, 2490, 2499, 2506, 2508, 2515, 2524, 2531, 2533, 2540, 2549, 2556, 2558, 2565,
   2574, 2581, 2583, 2590, 2599, 2606, 2608, 2615, 2624, 2631, 2633, 2640, 2649, 2656,
   2658, 2665, 2674, 2681, 2683, 2690, 2699, 2706, 2708, 2715, 2724, 2731, 2733, 2740,
   2749, 2756, 2758, 2765, 2774, 2781, 2783, 2790, 2799, 2806, 2808, 2815, 2824, 2831,
   2833, 2840, 2849, 2856, 2858, 2865, 2874, 2881, 2883, 2890, 2899, 2906, 2908, 2915,
   2924, 2931, 2933, 2940, 2949, 2953, 2956, 2958, 2960, 2962, 2965, 2967, 2969, 2971,
   2974, 2976, 2978, 2981, 2983, 2985, 2987, 2990, 2992, 2994, 2996, 2999, 3001, 3003,
   3006, 3008, 3010, 3012, 3015, 3017, 3019, 3021, 3024, 3026, 3028, 3031, 3033, 3035,
   3037, 3040, 3042, 3044, 3046, 3049, 3051, 3053, 3056, 3058, 3060, 3062, 3065, 3067,
   3069, 3071, 3074, 3076, 3078, 3081, 3083, 3085, 3087, 3090, 3092, 3094, 3096, 3097,
   3099, 3101, 3103, 3106, 3108, 3110, 3112, 3115, 3117, 3119, 3121, 3122, 3124, 3126,
   3128, 3131, 3133, 3135, 3137, 3140, 3142, 3144, 3146, 3147, 3149, 3151, 3153, 3156,
   3158, 3160, 3162, 3165, 3167, 3169, 3171, 3172, 3174, 3176, 3178, 3181, 3183, 3185,
   3187, 3190, 3192, 3194, 3196, 3197, 3199, 3202, 3203, 3206, 3209, 3210, 3213, 3216,
   3217, 3220, 3221, 3223, 3224, 3227, 3228, 3231, 3234, 3235, 3238, 3241, 3242, 3245,
   3246, 3248, 3249, 3252, 3253, 3256, 3259, 3260, 3263, 3266, 3267, 3270, 3271, 3273,
   3274, 3277, 3278, 3281, 3284, 3285, 3288, 3291, 3292, 3295, 3296, 3298, 3299, 3302,
   3303, 3306, 3309, 3310, 3313, 3316, 3317, 3320, 3321, 3323, 3324, 3327, 3328, 3331,
   3334, 3335, 3338, 3341, 3342, 3345, 3346, 3348, 3349, 3352, 3353, 3356, 3359, 3360,
   3363, 3366, 3367, 3370, 3371, 3373, 3374, 3377, 3378, 3381, 3384, 3385, 3388, 3391,
   3392, 3395, 3396, 3398, 3399, 3402, 3403, 3406, 3409, 3410, 3413, 3416, 3417, 3420,
   3421, 3423, 3424, 3427, 3428, 3430, 3431, 3434, 3435, 3438, 3441, 3442, 3445, 3446,
   3448, 3449, 3452, 3453, 3455, 3456, 3459, 3460, 3463, 3466, 3467, 3470, 3471, 3473,
   3474, 3477, 3478, 3480, 3481, 3484, 3485, 3488, 3491, 3492, 3495, 3496, 3498, 3499,
   3502, 3503, 3505, 3506, 3509, 3510, 3513, 3516, 3517, 3520, 3521, 3523, 3524, 3527,
   3528, 3530, 3531, 3534, 3535, 3538, 3541, 3542, 3545, 3546, 3548, 3549, 3552, 3553,
   3555, 3556, 3559, 3560, 3563, 3566, 3567, 3570, 3571, 3573, 3574, 3577, 3578, 3580,
   3581, 3584, 3585, 3588, 3591, 3592, 3595, 3596, 3598, 3599, 3602, 3603, 3605, 3606,
   3609, 3610, 3613, 3616, 3617, 3620, 3621, 3623, 3624, 3627, 3628, 3630, 3631, 3634,
   3635, 3638, 3641, 3642, 3645, 3648, 3649, 3652, 3653, 3655, 3656, 3659, 3660, 3663,
   3666, 3667, 3670, 3673, 3674, 3677, 3678, 3680, 3681, 3684, 3685, 3688, 3691, 3692,
   3695, 3698, 3699, 3702, 3703, 3705, 3706, 3709, 3710, 3713, 3716, 3717, 3720, 3723,
   3724, 3727, 3728, 3730, 3731, 3734, 3735, 3738, 3741, 3742, 3745, 3748, 3749, 3752,
   3753, 3755, 3756, 3759, 3760, 3763, 3766, 3767, 3770, 3773, 3774, 3777, 3778, 3780,
   3781, 3784, 3785, 3788, 3791, 3792, 3795, 3798, 3799, 3802, 3803, 3805, 3806, 3809,
   3810, 3813, 3816, 3817, 3820, 3823, 3824, 3827, 3828, 3830, 3831, 3834, 3835, 3838,
   3841, 3842, 3845, 3848, 3849, 3852, 3853, 3855, 3856, 3859, 3860, 3863, 3866, 3867,
   3870, 3873, 3874, 3877, 3878, 3880, 3881, 3884, 3885, 3888, 3891, 3892, 3895, 3898,
   3899, 3902, 3903, 3905, 3906, 3909, 3910, 3913, 3916, 3917, 3920, 3923, 3924, 3927,
   3928, 3930, 3931, 3934, 3935, 3938, 3941, 3942, 3945, 3948, 3949, 3952, 3953, 3955,
   3956, 3959, 3960, 3963, 3966, 3967, 3970, 3973, 3974, 3977, 3978, 3980, 3981, 3984,
   3985, 3988, 3989, 3991, 3992, 3995, 3996, 3998, 3999, 4002, 4003, 4005, 4006, 4009,
   4010, 4013, 4014, 4016, 4017, 4020, 4021, 4023, 4024, 4027, 4028, 4030, 4031, 4034,
   4035, 4038, 4039, 4041, 4042, 4045, 4046, 4048, 4049, 4052, 4053, 4055, 4056, 4059,
   4060, 4063, 4064, 4066, 4067, 4070, 4071, 4073, 4074, 4077, 4078, 4080, 4081, 4084,
   4085, 4088, 4089, 4091, 4092, 4095, 4096, 4098, 4099, 4102, 4103, 4105, 4106, 4109,
   4110, 4113, 4114, 4116, 4117, 4120, 4121, 4123, 4124, 4127, 4128, 4130, 4131, 4134,
   4135, 4138, 4139, 4141, 4142, 4145, 4146, 4148, 4149, 4152, 4153, 4155, 4156, 4159,
   4160, 4163, 4164, 4166, 4167, 4170, 4171, 4173, 4174, 4177, 4178, 4180, 4181, 4184,
   4185, 4188, 4189, 4191, 4192, 4195, 4196, 4198, 4199, 4202, 4203, 4205, 4206, 4209,
   4210, 4213, 4214, 4216, 4217, 4220, 4221, 4223, 4224, 4227, 4228, 4230, 4231, 4234,
   4235, 4238, 4239, 4241, 4242, 4245, 4246, 4248, 4249, 4252, 4253, 4255, 4256, 4259,
   4260, 4263, 4264, 4266, 4267, 4270, 4271, 4273, 4274, 4277, 4278, 4280, 4281, 4284,
   4285, 4288, 4289, 4291, 4292, 4295, 4296, 4298, 4299, 4302, 4303, 4305, 4306, 4309,
   4310, 4313, 4314, 4316, 4317, 4320, 4321, 4323, 4324, 4327, 4328, 4330, 4331, 4334,
   4335, 4338, 4339, 4341, 4342, 4345, 4346, 4348, 4349, 4352, 4353, 4355, 4356, 4359,
   4360, 4363, 4364, 4366, 4367, 4370, 4371, 4373, 4374, 4377, 4378, 4380, 4381, 4384,
   4385, 4388, 4389, 4391, 4392, 4395, 4396, 4398, 4399, 4402, 4403, 4405, 4406, 4409,
   4410, 4413, 4414, 4416, 4417, 4420, 4421, 4423, 4424, 4427, 4428, 4430, 4431, 4434,
   4435, 4438, 4439, 4441, 4442, 4445, 4446, 4448, 4449, 4452, 4453, 4455, 4456, 4459,
   4460, 4463, 4464, 4466, 4467, 4470, 4471, 4473, 4474, 4477, 4478, 4480, 4481, 4484,
   4485, 4488, 4489, 4491, 4492, 4495, 4496, 4498, 4499, 4502, 4503, 4505, 4506, 4507,
   4509, 4510, 4513, 4514, 4516, 4517, 4520, 4521, 4523, 4524, 4527, 4528, 4530, 4531,
   4532, 4534, 4535, 4538, 4539, 4541, 4542, 4545, 4546, 4548, 4549, 4552, 4553, 4555,
   4556, 4557, 4559, 4560, 4563, 4564, 4566, 4567, 4570, 4571, 4573, 4574, 4577, 4578,
   4580, 4581, 4582, 4584, 4585, 4588, 4589, 4591, 4592, 4595, 4596, 4598, 4599, 4602,
   4603, 4605, 4606, 4607, 4609, 4610, 4613, 4614, 4616, 4617, 4620, 4621, 4623, 4624,
   4627, 4628, 4630, 4631, 4632, 4634, 4635, 4638, 4639, 4641, 4642, 4645, 4646, 4648,
   4649, 4652, 4653, 4655, 4656, 4657, 4659, 4660, 4663, 4664, 4666, 4667, 4670, 4671,
   4673, 4674, 4677, 4678, 4680, 4681, 4682, 4684, 4685, 4688, 4689, 4691, 4692, 4695,
   4696, 4698, 4699, 4702, 4703, 4705, 4706, 4707, 4709, 4710, 4713, 4714, 4716, 4717,
   4720, 4721, 4723, 4724, 4727, 4728, 4730, 4731, 4732, 4734, 4735, 4738, 4739, 4741,
   4742, 4745, 4746, 4748, 4749, 4752, 4753, 4755, 4756, 4757, 4759, 4760, 4763, 4764,
   4766, 4767, 4770, 4771, 4773, 4774, 4777, 4778, 4780, 4781, 4782, 4784, 4785, 4787,
   4788, 4789, 4791, 4792, 4795, 4796, 4798, 4799, 4802, 4803, 4805, 4806, 4807, 4809,
   4810, 4812, 4813, 4814, 4816, 4817, 4820, 4821, 4823, 4824, 4827, 4828, 4830, 4831,
   4832, 4834, 4835, 4837, 4838, 4839, 4841, 4842, 4845, 4846, 4848, 4849, 4852, 4853,
   4855, 4856, 4857, 4859, 4860, 4862, 4863, 4864, 4866, 4867, 4870, 4871, 4873, 4874,
   4877, 4878, 4880, 4881, 4882, 4884, 4885, 4887, 4888, 4889, 4891, 4892, 4895, 4896,
   4898, 4899, 4902, 4903, 4905, 4906, 4907, 4909, 4910, 4912, 4913, 4914, 4916, 4917,
   4920, 4921, 4923, 4924, 4927, 4928, 4930, 4931, 4932, 4934, 4935, 4937, 4938, 4939,
   4941, 4942, 4945, 4946, 4948, 4949, 4952, 4953, 4955, 4956, 4957, 4959, 4960, 4962,
   4963, 4964, 4966, 4967, 4970, 4971, 4973, 4974, 4977, 4978, 4980, 4981, 4982, 4984,
   4985, 4987, 4988, 4989, 4991, 4992, 4995, 4996, 4998, 4999
  }

\* Math.floor(remainingOverageBudget / PLANS.PRO.overagePrice)
maxOverageScans(b) ==
  ((b.overageCap - b.overageCharge) \div overagePrice)
    - (IF b.overageScans \in FloorLosesOne THEN 1 ELSE 0)

\* useCredits without the check against the overage cap
useCreditsOverageRejects_noCap(s, count) ==
  /\ s.creditsUsed + count > s.creditLimit
  /\ ~overageEnabled(s.plan)

\* hasAvailableCredits(shop, required): {allowed, useOverage, overageCount}
hasAvailableCreditsOverage(s, required) ==
  LET b == getShopBillingOverage(s)
      overageNeeded == required - b.creditsRemaining
  IN  IF b.creditsRemaining >= required
      THEN [allowed |-> TRUE, useOverage |-> FALSE, overageCount |-> 0]
      ELSE IF b.overageEnabled /\ overageNeeded <= maxOverageScans(b)
           THEN [allowed |-> TRUE, useOverage |-> TRUE,
                 overageCount |-> overageNeeded]
           ELSE [allowed |-> FALSE, useOverage |-> FALSE, overageCount |-> 0]

\* useCredits, the checks on the row it read: TRUE when the call is rejected
useCreditsOverageRejects(s, count) ==
  LET newTotal == s.creditsUsed + count
      wouldExceedLimit == newTotal > s.creditLimit
      newOverage == newTotal - s.creditLimit
  IN  \/ wouldExceedLimit /\ ~overageEnabled(s.plan)
      \/ /\ wouldExceedLimit /\ overageEnabled(s.plan)
         /\ newOverage * planOveragePrice(s.plan) > planOverageCap(s.plan)

(***************************************************************************)
(* queue.server.ts: task ids and submission                                *)
(***************************************************************************)
\* the replacement with the colons only in its character class
sanitizeJobId_colonsOnly(id) ==
  [k \in 1..Len(id) |-> IF id[k] = ":" THEN "_" ELSE id[k]]

\* sanitizeJobId: id.replace(/[:/]/g, "_")
sanitizeJobId(id) ==
  [k \in 1..Len(id) |-> IF id[k] \in {":", "/"} THEN "_" ELSE id[k]]

\* the task id with the sanitized id cut to the length of its prefix
taskId_truncated(jobId, productId) ==
  <<jobId, SubSeq(sanitizeJobId(productId), 1, 6)>>

\* `${jobId}-${sanitizedProductId}`
taskId(jobId, productId) == <<jobId, sanitizeJobId(productId)>>

\* a record as queue.add / queue.addBulk creates it
newTask(jobId, productId) ==
  [jobId |-> jobId, productId |-> productId, state |-> "waiting",
   attemptsMade |-> 0, finishedSeq |-> 0]

\* queue.addBulk: a job whose id is already in the queue is not added again
addBulk(q, jobId, ps) ==
  LET ids == {taskId(jobId, p) : p \in ps}
      fresh == ids \ DOMAIN q
      pick(t) == CHOOSE p \in ps : taskId(jobId, p) = t
  IN  q @@ [t \in fresh |-> newTask(jobId, pick(t))]

\* the count of records created per task id, after a submission
admit(adm, q, q2) ==
  LET fresh == DOMAIN q2 \ DOMAIN q IN
  [t \in DOMAIN adm \cup fresh |->
     (IF t \in DOMAIN adm THEN adm[t] ELSE 0) + (IF t \in fresh THEN 1 ELSE 0)]

\* a Product row as the start-scan action creates it
newProduct(jobId) ==
  [jobId |-> jobId, status |-> "PENDING", error |-> "none",
   suggestedMetafields |-> FALSE, suggestedTags |-> FALSE, syncedAt |-> 0]

\* a Job row as the start-scan action creates it
newJob(n) == [status |-> "QUEUED", totalItems |-> n, processed |-> 0]

(***************************************************************************)
(* Initial values of the processes                                         *)
(***************************************************************************)
idleReq ==
  [pc |-> "idle", batch |-> {}, job |-> NoJob, result |-> "none",
   checked |-> [required |-> 0, allowed |-> FALSE],
   read |-> [creditsUsed |-> 0, creditLimit |-> 0, billingPeriodStart |-> 0]]

idleCaller ==
  [pc |-> "idle", required |-> 0, enabled |-> FALSE, result |-> "none",
   seen |-> [plan |-> "FREE", creditsUsed |-> 0, creditLimit |-> 0],
   check |-> [allowed |-> FALSE, useOverage |-> FALSE, overageCount |-> 0],
   read |-> [plan |-> "FREE", creditsUsed |-> 0, creditLimit |-> 0]]

\* a slot of the Worker with no processor invocation running in it
idleSlot ==
  [pc |-> "idle", task |-> <<>>, response |-> "none",
   processed |-> 0, totalItems |-> 0]

\* the sync action before a request arrives
idleSync ==
  [pc |-> "idle", id |-> NoJob, productIds |-> <<>>, i |-> 1,
   syncMetafields |-> FALSE, syncTags |-> FALSE,
   product |-> newProduct(NoJob),
   metaSuccess |-> TRUE, tagSuccess |-> TRUE, synced |-> 0, errors |-> 0]

\* the process before queue.server.ts is evaluated: REDIS_URL is set, the
\* singletons analysisQueue and analysisWorker are null (0), no Queue and no
\* Worker has been constructed, no call has ended
idleProc ==
  [loaded |-> FALSE, redisUrl |-> TRUE, analysisQueue |-> 0,
   analysisWorker |-> 0, queues |-> {}, workers |-> {}, returned |-> <<>>]

\* no call of a service function in progress
idleCall == [pc |-> "idle"]

\* no request of the kind is in flight
NoProcesses ==
  /\ req = [r \in Reqs |-> idleReq]
  /\ ov = [c \in Callers |-> idleCaller]
  /\ wk = [w \in Slots |-> idleSlot]
  /\ sy = idleSync
  /\ writes = {}
  /\ proc = idleProc
  /\ call = idleCall

EmptyStore ==
  /\ jobs = <<>>
  /\ products = <<>>
  /\ tasks = <<>>
  /\ admitted = <<>>
  /\ dispatched = <<>>

(***************************************************************************)
(* The scan: ledger and orchestration (hard cap build)                     *)
(***************************************************************************)
\* The ledger row as earlier scans of the period have left it: a Free shop
\* one credit short of its limit, a Pro shop that has used more than the
\* Free quota and has turned auto-sync on.
InitSettings ==
  {[plan |-> "FREE", creditLimit |-> FREE_credits, creditsUsed |-> 49,
    autoSyncNewProducts |-> FALSE, billingPeriodStart |-> 0],
   [plan |-> "PRO", creditLimit |-> PRO_credits, creditsUsed |-> 60,
    autoSyncNewProducts |-> TRUE, billingPeriodStart |-> 0]}

Init ==
  /\ settings \in InitSettings
  /\ usageCount = settings.creditsUsed
  /\ EmptyStore
  /\ NoProcesses

\* app._index.tsx, action "start-scan": fetchAllProducts(admin, 100), and the
\* early return on an empty result
FetchProducts(r) ==
  /\ req[r].pc = "idle"
  /\ \E P \in SUBSET Catalog :
       req' = [req EXCEPT ![r].batch = P,
                          ![r].pc = IF P = {} THEN "noProducts" ELSE "check"]
  /\ UNCHANGED <<ledgerVars, storeVars, queueLog, ov, wk, sy, writes, proc, call>>

\* hasAvailableCredits(shop, products.length) and the return when it is false
CheckCredits(r) ==
  /\ req[r].pc = "check"
  /\ \E build \in BillingBuilds :
       req' = [req EXCEPT
         ![r].checked = [required |-> Cardinality(req[r].batch),
                         allowed |-> hasAvailableCredits(
                                       settings, Cardinality(req[r].batch))],
         ![r].pc = IF hasCreditsTruthy(build, settings,
                                       Cardinality(req[r].batch))
                   THEN "createJob" ELSE "denied"]
  /\ UNCHANGED <<ledgerVars, storeVars, queueLog, ov, wk, sy, writes, proc, call>>

\* prisma.job.create
CreateJob(r) ==
  /\ req[r].pc = "createJob"
  /\ jobs' = Append(jobs, newJob(Cardinality(req[r].batch)))
  /\ req' = [req EXCEPT ![r].job = Len(jobs) + 1, ![r].pc = "createProducts"]
  /\ UNCHANGED <<ledgerVars, products, tasks, queueLog, ov, wk, sy, writes,
                 proc, call>>

\* prisma.product.createMany: Product.id is unique (the rows are read and
\* updated by id alone), so the insert of a batch holding an id that is
\* already stored is rejected as a whole and the action ends with the error
CreateProducts(r) ==
  /\ req[r].pc = "createProducts"
  /\ IF req[r].batch \cap DOMAIN products # {}
     THEN /\ req' = [req EXCEPT ![r].pc = "failed"]
          /\ UNCHANGED products
     ELSE /\ products' =
               products @@ [p \in req[r].batch |-> newProduct(req[r].job)]
          /\ req' = [req EXCEPT ![r].pc = "queue"]
  /\ UNCHANGED <<ledgerVars, jobs, tasks, queueLog, ov, wk, sy, writes, proc, call>>

\* queueBulkAnalysis(job.id, products, shop)
QueueBulk(r) ==
  /\ req[r].pc = "queue"
  /\ tasks' = addBulk(tasks, req[r].job, req[r].batch)
  /\ admitted' = admit(admitted, tasks, tasks')
  /\ req' = [req EXCEPT ![r].pc = "useCreditsRead"]
  /\ UNCHANGED <<ledgerVars, jobs, products, dispatched, ov, wk, sy, writes,
                 proc, call>>

\* useCredits: getOrCreateShopSettings(shop)
UseCreditsRead(r) ==
  /\ req[r].pc = "useCreditsRead"
  /\ req' = [req EXCEPT
       ![r].read = [creditsUsed |-> settings.creditsUsed,
                    creditLimit |-> settings.creditLimit,
                    billingPeriodStart |-> settings.billingPeriodStart],
       ![r].pc = "useCreditsWrite"]
  /\ UNCHANGED <<ledgerVars, storeVars, queueLog, ov, wk, sy, writes, proc, call>>

\* useCredits: the limit check, prisma.shopSettings.update and the
\* usageRecord upsert; the action ignores the result and answers success
UseCreditsWrite(r) ==
  /\ req[r].pc = "useCreditsWrite"
  /\ LET n == Cardinality(req[r].batch) IN
     IF useCreditsRejects(req[r].read, n)
     THEN /\ req' = [req EXCEPT ![r].result = "rejected", ![r].pc = "done"]
          /\ UNCHANGED ledgerVars
     ELSE /\ settings' = useCreditsUpdate(settings, req[r].read, n)
          /\ usageCount' = usageCount + n
          /\ req' = [req EXCEPT ![r].result = "consumed", ![r].pc = "done"]
  /\ UNCHANGED <<storeVars, queueLog, ov, wk, sy, writes, proc, call>>

\* resetCredits(shop)
ResetCredits ==
  /\ settings.billingPeriodStart < MaxPeriod
  /\ settings' = resetCreditsUpdate(settings)
  /\ usageCount' = 0
  /\ UNCHANGED <<storeVars, queueLog, req, ov, wk, sy, writes, proc, call>>

\* the value undefined, which no string of the model is spelt like
undefined == "undefined"

\* webhooks.app-subscriptions.update.tsx: the statuses Shopify sends, and
\* a payload without app_subscription.status
SubscriptionStatuses ==
  {"ACTIVE", "CANCELLED", "EXPIRED", "DECLINED", "FROZEN", "PENDING",
   undefined}

\* the handler with a frozen subscription taken for one that has ended
subscriptionUpdate_frozenEnds(cur, status) ==
  IF status = "ACTIVE" THEN upgradeToProPlanUpdate(cur)
  ELSE IF status \in {"CANCELLED", "EXPIRED", "DECLINED", "FROZEN"}
       THEN downgradeToFreePlanUpdate(cur)
       ELSE cur

\* the ShopSettings row after the handler: upgradeToProPlan for ACTIVE,
\* downgradeToFreePlan for CANCELLED, EXPIRED and DECLINED, else no call
subscriptionUpdate(cur, status) ==
  IF status = "ACTIVE" THEN upgradeToProPlanUpdate(cur)
  ELSE IF status \in {"CANCELLED", "EXPIRED", "DECLINED"}
       THEN downgradeToFreePlanUpdate(cur)
       ELSE cur

\* webhooks.app-subscriptions.update.tsx: action, for a payload with status
SubscriptionUpdateOf(status) ==
  /\ status = "ACTIVE" => settings.billingPeriodStart < MaxPeriod
  /\ settings' = subscriptionUpdate(settings, status)
  /\ usageCount' = IF status = "ACTIVE" THEN 0 ELSE usageCount
  /\ UNCHANGED <<storeVars, queueLog, req, ov, wk, sy, writes, proc, call>>

\* webhooks.app-subscriptions.update.tsx: action
SubscriptionUpdate ==
  \E status \in SubscriptionStatuses : SubscriptionUpdateOf(status)

Next ==
  \/ \E r \in Reqs : FetchProducts(r)
  \/ \E r \in Reqs : CheckCredits(r)
  \/ \E r \in Reqs : CreateJob(r)
  \/ \E r \in Reqs : CreateProducts(r)
  \/ \E r \in Reqs : QueueBulk(r)
  \/ \E r \in Reqs : UseCreditsRead(r)
  \/ \E r \in Reqs : UseCreditsWrite(r)
  \/ ResetCredits
  \/ SubscriptionUpdate

Spec == Init /\ [][Next]_vars

(***************************************************************************)
(* The billing service of the overage build, called concurrently           *)
(***************************************************************************)
\* unit counts requested by the callers
OvUnits == {1, 10, 20}

InitOverageSettings ==
  {[plan |-> "PRO", creditLimit |-> PRO_credits, creditsUsed |-> u,
    autoSyncNewProducts |-> FALSE, billingPeriodStart |-> 0] :
      u \in {0, 1990, 6990, 6999}}
  \cup
  {[plan |-> "FREE", creditLimit |-> FREE_credits, creditsUsed |-> 48,
    autoSyncNewProducts |-> FALSE, billingPeriodStart |-> 0]}

InitOverage ==
  /\ settings \in InitOverageSettings
  /\ usageCount = settings.creditsUsed
  /\ EmptyStore
  /\ NoProcesses

ledgerRow(s) ==
  [plan |-> s.plan, creditsUsed |-> s.creditsUsed, creditLimit |-> s.creditLimit]

\* hasAvailableCredits(shop, required)
OvHasAvailableCredits(c) ==
  /\ ov[c].pc = "idle"
  /\ \E n \in OvUnits :
       ov' = [ov EXCEPT ![c].required = n,
                        ![c].seen = ledgerRow(settings),
                        ![c].check = hasAvailableCreditsOverage(settings, n),
                        ![c].pc = "checked"]
  /\ UNCHANGED <<ledgerVars, storeVars, queueLog, req, wk, sy, writes, proc, call>>

\* useCredits(shop, count): getOrCreateShopSettings(shop); called for the
\* count just checked, or on its own
OvUseCreditsRead(c) ==
  /\ ov[c].pc \in {"idle", "checked"}
  /\ \E n \in OvUnits :
       /\ ov[c].pc = "checked" => n = ov[c].required
       /\ ov' = [ov EXCEPT ![c].required = n,
                           ![c].read = ledgerRow(settings),
                           ![c].pc = "useCreditsWrite"]
  /\ UNCHANGED <<ledgerVars, storeVars, queueLog, req, wk, sy, writes, proc, call>>

\* useCredits: the checks, prisma.shopSettings.update, usageRecord upsert
OvUseCreditsWrite(c) ==
  /\ ov[c].pc = "useCreditsWrite"
  /\ IF useCreditsOverageRejects(ov[c].read, ov[c].required)
     THEN /\ ov' = [ov EXCEPT ![c].result = "rejected", ![c].pc = "done"]
          /\ UNCHANGED ledgerVars
     ELSE /\ settings' = useCreditsUpdate(settings, ov[c].read, ov[c].required)
          /\ usageCount' = usageCount + ov[c].required
          /\ ov' = [ov EXCEPT ![c].result = "consumed", ![c].pc = "done"]
  /\ UNCHANGED <<storeVars, queueLog, req, wk, sy, writes, proc, call>>

NextOverage ==
  \/ \E c \in Callers : OvHasAvailableCredits(c)
  \/ \E c \in Callers : OvUseCreditsRead(c)
  \/ \E c \in Callers : OvUseCreditsWrite(c)

SpecOverage == InitOverage /\ [][NextOverage]_vars

(***************************************************************************)
(* queue.server.ts: the Worker of queue "vision-analysis"                  *)
(***************************************************************************)
\* bound: the Items of the Job the Worker is observed on
WorkerItems == 2
\* bound: the database calls of the processor that reject during a run
MaxFaults == 3

\* the position a record gets in the finished sets: after all others
finishClock(q) ==
  LET seqs == {q[t].finishedSeq : t \in DOMAIN q} IN
  1 + (IF seqs = {} THEN 0 ELSE CHOOSE m \in seqs : \A n \in seqs : n <= m)

\* removeOnComplete / removeOnFail: of the records in the finished state
\* the newest `keep` stay, the older ones are removed from the queue
trimFinished(q, state, keep) ==
  LET fin == {t \in DOMAIN q : q[t].state = state}
      newer(t) == {u \in fin : q[u].finishedSeq > q[t].finishedSeq}
      kept == {t \in fin : Cardinality(newer(t)) < keep}
  IN  [t \in (DOMAIN q \ fin) \cup kept |-> q[t]]

\* the processor returned: the record moves to the completed set
moveToCompleted(q, t) ==
  trimFinished([q EXCEPT ![t].state = "completed",
                         ![t].finishedSeq = finishClock(q)],
               "completed", removeOnComplete)

\* the processor threw: retried (with backoff) until `attempts` attempts
\* are made, then the record moves to the failed set
moveToFailed(q, t) ==
  IF q[t].attemptsMade + 1 < attempts
  THEN [q EXCEPT ![t].attemptsMade = @ + 1, ![t].state = "waiting"]
  ELSE trimFinished([q EXCEPT ![t].attemptsMade = @ + 1,
                              ![t].state = "failed",
                              ![t].finishedSeq = finishClock(q)],
                    "failed", removeOnFail)

\* the count of processor invocations per task id, after one more for t
invoked(d, t) ==
  [u \in DOMAIN d \cup {t} |->
     (IF u \in DOMAIN d THEN d[u] ELSE 0) + (IF u = t THEN 1 ELSE 0)]

\* jobRecord.products.filter((p) => p.status !== "PENDING").length
processedCount(ps, jobId) ==
  Cardinality({p \in DOMAIN ps :
                 ps[p].jobId = jobId /\ ps[p].status # "PENDING"})

\* the rollup with the Job completed only past its total
rollupStatus_pastTotal(processed, totalItems) ==
  IF processed > totalItems THEN "COMPLETED" ELSE "PROCESSING"

\* processed >= jobRecord.totalItems ? "COMPLETED" : "PROCESSING"
rollupStatus(processed, totalItems) ==
  IF processed >= totalItems THEN "COMPLETED" ELSE "PROCESSING"

\* the store and the ledger after a start-scan of the batch by a Pro shop
AfterScan(batch) ==
  /\ settings =
       [plan |-> "PRO", creditLimit |-> PRO_credits,
        creditsUsed |-> Cardinality(batch),
        autoSyncNewProducts |-> FALSE, billingPeriodStart |-> 0]
  /\ usageCount = Cardinality(batch)
  /\ jobs = <<newJob(Cardinality(batch))>>
  /\ products = [p \in batch |-> newProduct(1)]
  /\ tasks = addBulk(<<>>, 1, batch)
  /\ admitted = admit(<<>>, <<>>, tasks)
  /\ dispatched = <<>>

InitWorker ==
  /\ AfterScan({Gid(k) : k \in 1..WorkerItems})
  /\ NoProcesses

\* the attempts that have ended in a throw, over the records of the queue:
\* the records with attemptsMade >= a, summed over a = k..attempts
RECURSIVE attemptsMadeFrom(_, _)
attemptsMadeFrom(q, k) ==
  IF k > attempts THEN 0
  ELSE Cardinality({t \in DOMAIN q : q[t].attemptsMade >= k})
         + attemptsMadeFrom(q, k + 1)

\* a database call of the try block may reject: every rejection brings a
\* processor to its catch block and then adds an attempt to its record
mayReject ==
  attemptsMadeFrom(tasks, 1)
    + Cardinality({w \in Slots : wk[w].pc = "catch"}) < MaxFaults

\* the Worker takes a waiting record and invokes the processor on it
Dispatch(w) ==
  /\ wk[w].pc = "idle"
  /\ \E t \in DOMAIN tasks :
       /\ tasks[t].state = "waiting"
       /\ tasks' = [tasks EXCEPT ![t].state = "active"]
       /\ dispatched' = invoked(dispatched, t)
       /\ wk' = [wk EXCEPT ![w] = [idleSlot EXCEPT !.pc = "analyze",
                                                   !.task = t]]
  /\ UNCHANGED <<ledgerVars, jobs, products, admitted, req, ov, sy, writes,
                 proc, call>>

\* analyzeProductImage resolves to a VisionResult or, for every failure
\* (a timeout or another error thrown by the API client, a response without
\* text, unparseable or incomplete JSON), to a VisionError: it never throws
VisionResponses == {"result", "visionError"}

\* the test of the response with every response taken for a result
isVisionError_never(response) == FALSE

\* isVisionError(response)
isVisionError(response) == response = "visionError"

\* processor: analyzeProductImage and the prisma.product.update of the
\* response; the update rejects when the row is gone or the database fails
AnalyzeAndStoreOf(w, responses) ==
  /\ wk[w].pc = "analyze"
  /\ LET p == tasks[wk[w].task].productId IN
     \E response \in responses :
       \E ok \in {TRUE} \cup {b \in {FALSE} : mayReject} :
         /\ ok => p \in DOMAIN products
         /\ products' =
              IF ~ok THEN products
              ELSE IF isVisionError(response)
                   THEN [products EXCEPT ![p].status = "ERROR",
                                         ![p].error = "vision"]
                   ELSE [products EXCEPT ![p].status = "ANALYZED",
                                         ![p].suggestedMetafields = TRUE,
                                         ![p].suggestedTags = TRUE]
         /\ wk' = [wk EXCEPT
              ![w].response = IF ok THEN response ELSE "none",
              ![w].pc = IF ok THEN "rollupRead" ELSE "catch"]
  /\ UNCHANGED <<ledgerVars, jobs, tasks, queueLog, req, ov, sy, writes, proc, call>>

AnalyzeAndStore(w) == AnalyzeAndStoreOf(w, VisionResponses)

\* processor: prisma.job.findUnique({include: {products: true}}) and the
\* count of the Items that are not PENDING; without a Job row the processor
\* returns at once
RollupRead(w) ==
  /\ wk[w].pc = "rollupRead"
  /\ LET t == wk[w].task
         j == tasks[t].jobId
     IN  \E ok \in {TRUE} \cup {b \in {FALSE} : mayReject} :
           IF ~ok
           THEN /\ wk' = [wk EXCEPT ![w].pc = "catch", ![w].response = "none"]
                /\ UNCHANGED tasks
           ELSE IF j \in 1..Len(jobs)
                THEN /\ wk' = [wk EXCEPT
                          ![w].processed = processedCount(products, j),
                          ![w].totalItems = jobs[j].totalItems,
                          ![w].pc = "rollupWrite"]
                     /\ UNCHANGED tasks
                ELSE /\ tasks' = moveToCompleted(tasks, t)
                     /\ wk' = [wk EXCEPT ![w] = idleSlot]
  /\ UNCHANGED <<ledgerVars, jobs, products, queueLog, req, ov, sy, writes,
                 proc, call>>

\* processor: prisma.job.update of processed and status with the values
\* computed from the read, and the return
RollupWrite(w) ==
  /\ wk[w].pc = "rollupWrite"
  /\ LET t == wk[w].task
         j == tasks[t].jobId
     IN  \E ok \in {TRUE} \cup {b \in {FALSE} : mayReject} :
           IF ok
           THEN /\ jobs' = [jobs EXCEPT
                       ![j].processed = wk[w].processed,
                       ![j].status =
                          rollupStatus(wk[w].processed, wk[w].totalItems)]
                /\ tasks' = moveToCompleted(tasks, t)
                /\ wk' = [wk EXCEPT ![w] = idleSlot]
           ELSE /\ wk' = [wk EXCEPT ![w].pc = "catch", ![w].response = "none"]
                /\ UNCHANGED <<jobs, tasks, proc, call>>
  /\ UNCHANGED <<ledgerVars, products, queueLog, req, ov, sy, writes, proc, call>>

\* processor, catch: prisma.product.update({status: "ERROR", error}) and
\* the rethrow, which has the queue retry the task or fail it
Catch(w) ==
  /\ wk[w].pc = "catch"
  /\ LET t == wk[w].task
         p == tasks[t].productId
     IN  /\ \E ok \in BOOLEAN :
              /\ ok => p \in DOMAIN products
              /\ products' =
                   IF ok THEN [products EXCEPT ![p].status = "ERROR",
                                               ![p].error = "exception"]
                   ELSE products
         /\ tasks' = moveToFailed(tasks, t)
         /\ wk' = [wk EXCEPT ![w] = idleSlot]
  /\ UNCHANGED <<ledgerVars, jobs, queueLog, req, ov, sy, writes, proc, call>>

NextWorker ==
  \/ \E w \in Slots : Dispatch(w)
  \/ \E w \in Slots : AnalyzeAndStore(w)
  \/ \E w \in Slots : RollupRead(w)
  \/ \E w \in Slots : RollupWrite(w)
  \/ \E w \in Slots : Catch(w)

SpecWorker == InitWorker /\ [][NextWorker]_vars

(***************************************************************************)
(* app.jobs.$id.tsx: the sync action                                       *)
(***************************************************************************)
\* bound: the Items of the Job the sync is observed on
SyncItems == 3

\* new Date() of an earlier sync and of the sync observed
SyncedBefore == 1
SyncNow == 2

\* the statuses an Item that is not ANALYZED has, by its position
OtherStatus(k) ==
  IF k % 3 = 1 THEN "PENDING" ELSE IF k % 3 = 2 THEN "ERROR" ELSE "SYNCED"

\* an Item row as the worker or an earlier sync has left it
settledProduct(status) ==
  [newProduct(1) EXCEPT
     !.status = status,
     !.error = IF status = "ERROR" THEN "vision" ELSE "none",
     !.suggestedMetafields = status \in {"ANALYZED", "SYNCED"},
     !.suggestedTags = status \in {"ANALYZED", "SYNCED"},
     !.syncedAt = IF status = "SYNCED" THEN SyncedBefore ELSE 0]

\* the queue record of an Item: finished unless the Item is PENDING
settledTask(k, status) ==
  [newTask(1, Gid(k)) EXCEPT
     !.state = IF status = "PENDING" THEN "waiting" ELSE "completed",
     !.finishedSeq = IF status = "PENDING" THEN 0 ELSE k]

\* the message stored with only the last failure reason in it
errMsg_lastOnly(metaSuccess, tagSuccess) ==
  IF ~tagSuccess THEN "tags" ELSE "metafields"

\* [metaError, tagError].filter(Boolean).join("; "), where a write that
\* failed has returned its reason
errMsg(metaSuccess, tagSuccess) ==
  IF ~metaSuccess /\ ~tagSuccess THEN "metafields; tags"
  ELSE IF ~metaSuccess THEN "metafields"
  ELSE IF ~tagSuccess THEN "tags"
  ELSE ""

\* the test of the row with every row that is found taken for eligible
syncEligible_found(ps, p) == p \in DOMAIN ps

\* !(!product || product.status !== "ANALYZED")
syncEligible(ps, p) == p \in DOMAIN ps /\ ps[p].status = "ANALYZED"

\* a Job of SyncItems Items, those of `analyzed` ANALYZED, the others in
\* the status of their position; the Items of `failedBefore` carry the
\* error of an earlier sync, whose tag write failed
InitSync ==
  \E analyzed \in SUBSET (1..SyncItems) : \E failedBefore \in SUBSET analyzed :
    LET status(k) == IF k \in analyzed THEN "ANALYZED" ELSE OtherStatus(k)
        ids == {Gid(k) : k \in 1..SyncItems}
        num(p) == CHOOSE k \in 1..SyncItems : Gid(k) = p
    IN  /\ settings =
             [plan |-> "PRO", creditLimit |-> PRO_credits,
              creditsUsed |-> SyncItems,
              autoSyncNewProducts |-> FALSE, billingPeriodStart |-> 0]
        /\ usageCount = SyncItems
        /\ products =
             [p \in ids |->
                IF num(p) \in failedBefore
                THEN [settledProduct("ANALYZED") EXCEPT
                        !.error = errMsg(TRUE, FALSE)]
                ELSE settledProduct(status(num(p)))]
        /\ jobs =
             <<[newJob(SyncItems) EXCEPT
                  !.processed = processedCount(products, 1),
                  !.status = rollupStatus(processedCount(products, 1),
                                          SyncItems)]>>
        /\ tasks =
             [t \in {taskId(1, p) : p \in ids} |->
                LET p == CHOOSE q \in ids : taskId(1, q) = t
                IN  settledTask(num(p), status(num(p)))]
        /\ admitted = [t \in DOMAIN tasks |-> 1]
        /\ dispatched =
             [t \in {u \in DOMAIN tasks : tasks[u].state = "completed"} |-> 1]
        /\ NoProcesses

\* formData.getAll("productIds"): a selection of the Job's Items, in the
\* order of the page, and possibly the id of a row that does not exist
SyncSelections ==
  LET page == <<Gid(0)>> \o [k \in 1..SyncItems |-> Gid(k)]
      pick(S) == [n \in 1..Cardinality(S) |->
                    page[CHOOSE k \in S :
                           Cardinality({m \in S : m < k}) = n - 1]]
  IN  {pick(S) : S \in SUBSET (1..Len(page))}

\* the for loop stopped at an Item whose write failed
syncContinue_stopAtFailure(s) ==
  [s EXCEPT !.i = @ + 1,
            !.pc = IF s.i + 1 > Len(s.productIds)
                      \/ ~(s.metaSuccess /\ s.tagSuccess)
                   THEN "done" ELSE "find"]

\* for (const productId of productIds): on to the next id, or to the return
syncContinue(s) ==
  [s EXCEPT !.i = @ + 1,
            !.pc = IF s.i + 1 > Len(s.productIds) THEN "done" ELSE "find"]

\* the action with action = "sync", on the page of a Job (params.id): the
\* form fields and the early return
SyncStart ==
  /\ sy.pc = "idle"
  /\ \E id \in 1..Len(jobs), ids \in SyncSelections, m, t \in BOOLEAN :
       sy' = [idleSync EXCEPT
                !.id = id,
                !.productIds = ids, !.syncMetafields = m, !.syncTags = t,
                !.pc = IF Len(ids) = 0 THEN "noProducts" ELSE "find"]
  /\ UNCHANGED <<ledgerVars, storeVars, queueLog, req, ov, wk, writes, proc, call>>

\* prisma.product.findUnique, and the skip of a row that is missing or
\* not ANALYZED
SyncFindProduct ==
  /\ sy.pc = "find"
  /\ LET p == sy.productIds[sy.i] IN
     IF ~syncEligible(products, p)
     THEN sy' = syncContinue([sy EXCEPT !.metaSuccess = TRUE,
                                        !.tagSuccess = TRUE])
     ELSE sy' = [sy EXCEPT !.product = products[p],
                           !.metaSuccess = TRUE, !.tagSuccess = TRUE,
                           !.pc = "metafields"]
  /\ UNCHANGED <<ledgerVars, storeVars, queueLog, req, ov, wk, writes, proc, call>>

\* updateProductMetafields, when selected: it returns its failures as
\* {success: false} and never throws
SyncMetafields ==
  /\ sy.pc = "metafields"
  /\ IF sy.syncMetafields /\ sy.product.suggestedMetafields
     THEN \E ok \in BOOLEAN :
            /\ writes' = writes \cup
                 {[productId |-> sy.productIds[sy.i],
                   group |-> "metafields", ok |-> ok]}
            /\ sy' = [sy EXCEPT !.metaSuccess = ok, !.pc = "tags"]
     ELSE /\ sy' = [sy EXCEPT !.pc = "tags"]
          /\ UNCHANGED writes
  /\ UNCHANGED <<ledgerVars, storeVars, queueLog, req, ov, wk, proc, call>>

\* updateProductTags, when selected
SyncTags ==
  /\ sy.pc = "tags"
  /\ IF sy.syncTags /\ sy.product.suggestedTags
     THEN \E ok \in BOOLEAN :
            /\ writes' = writes \cup
                 {[productId |-> sy.productIds[sy.i],
                   group |-> "tags", ok |-> ok]}
            /\ sy' = [sy EXCEPT !.tagSuccess = ok, !.pc = "store"]
     ELSE /\ sy' = [sy EXCEPT !.pc = "store"]
          /\ UNCHANGED writes
  /\ UNCHANGED <<ledgerVars, storeVars, queueLog, req, ov, wk, proc, call>>

\* the prisma.product.update of the outcome and the counters
SyncStore ==
  /\ sy.pc = "store"
  /\ LET p == sy.productIds[sy.i] IN
     IF sy.metaSuccess /\ sy.tagSuccess
     THEN /\ products' = [products EXCEPT ![p].status = "SYNCED",
                                          ![p].syncedAt = SyncNow]
          /\ sy' = syncContinue([sy EXCEPT !.synced = @ + 1])
     ELSE /\ products' =
               [products EXCEPT
                  ![p].error = errMsg(sy.metaSuccess, sy.tagSuccess)]
          /\ sy' = syncContinue([sy EXCEPT !.errors = @ + 1])
  /\ UNCHANGED <<ledgerVars, jobs, tasks, queueLog, req, ov, wk, writes, proc, call>>

NextSync ==
  \/ SyncStart
  \/ SyncFindProduct
  \/ SyncMetafields
  \/ SyncTags
  \/ SyncStore

SpecSync == InitSync /\ [][NextSync]_vars

(***************************************************************************)
(* queue.server.ts: submissions to a queue that retains finished records   *)
(***************************************************************************)
\* queue.add under the task id: a job whose id is already in the queue is
\* not added again
queueProductAnalysis(q, jobId, productId) ==
  IF taskId(jobId, productId) \in DOMAIN q THEN q
  ELSE q @@ [t \in {taskId(jobId, productId)} |-> newTask(jobId, productId)]

\* the Items whose task a caller submits again: the Item of the oldest
\* record the queue retains and the Item that waits
Resubmitted == {Gid(1), Gid(removeOnComplete + 1)}

\* The shop after removeOnComplete Jobs of one Item each (the auto-sync of
\* new products creates such Jobs) have completed one after the other, with
\* one more such Job queued: Job k holds Item Gid(k).
InitQueue ==
  LET done == 1..removeOnComplete
      last == removeOnComplete + 1
  IN  /\ settings =
           [plan |-> "PRO", creditLimit |-> PRO_credits, creditsUsed |-> last,
            autoSyncNewProducts |-> TRUE, billingPeriodStart |-> 0]
      /\ usageCount = last
      /\ jobs =
           [k \in 1..last |->
              IF k \in done
              THEN [newJob(1) EXCEPT !.processed = 1,
                                     !.status = rollupStatus(1, 1)]
              ELSE newJob(1)]
      /\ products =
           [p \in {Gid(k) : k \in 1..last} |->
              LET k == CHOOSE n \in 1..last : Gid(n) = p IN
              IF k \in done
              THEN [newProduct(k) EXCEPT !.status = "ANALYZED",
                                         !.suggestedMetafields = TRUE,
                                         !.suggestedTags = TRUE]
              ELSE newProduct(k)]
      /\ tasks =
           [t \in {taskId(k, Gid(k)) : k \in 1..last} |->
              LET k == t[1] IN
              IF k \in done
              THEN [newTask(k, Gid(k)) EXCEPT !.state = "completed",
                                              !.finishedSeq = k]
              ELSE newTask(k, Gid(k))]
      /\ admitted = [t \in DOMAIN tasks |-> 1]
      /\ dispatched =
           [t \in {taskId(k, Gid(k)) : k \in done} |-> 1]
      /\ NoProcesses

\* a call of queueProductAnalysis(jobId, productId) for an Item of the shop
QueueProductAnalysis ==
  /\ \E p \in Resubmitted \cap DOMAIN products :
       /\ tasks' = queueProductAnalysis(tasks, products[p].jobId, p)
       /\ admitted' = admit(admitted, tasks, tasks')
  /\ UNCHANGED <<ledgerVars, jobs, products, dispatched, req, ov, wk, sy,
                 writes, proc, call>>

NextQueue ==
  \/ QueueProductAnalysis
  \/ \E w \in Slots : Dispatch(w)
  \/ \E w \in Slots : AnalyzeAndStore(w)
  \/ \E w \in Slots : RollupRead(w)
  \/ \E w \in Slots : RollupWrite(w)
  \/ \E w \in Slots : Catch(w)

SpecQueue == InitQueue /\ [][NextQueue]_vars

(***************************************************************************)
(* billing.server.ts: the auto-sync setting and the plan                   *)
(***************************************************************************)
\* toggleAutoSync, the test on the row it read: TRUE when it returns the
\* error "Auto-sync is only available on Pro plan"
toggleAutoSyncRejects(s, enabled) == s.plan = "FREE" /\ enabled

InitPlan ==
  /\ settings \in InitSettings
  /\ usageCount = settings.creditsUsed
  /\ EmptyStore
  /\ NoProcesses

\* toggleAutoSync(shop, enabled): getOrCreateShopSettings and the plan test
ToggleAutoSyncRead(c) ==
  /\ ov[c].pc = "idle"
  /\ \E enabled \in BOOLEAN :
       ov' = [ov EXCEPT
         ![c].enabled = enabled,
         ![c].read = ledgerRow(settings),
         ![c].result = IF toggleAutoSyncRejects(settings, enabled)
                       THEN "rejected" ELSE "none",
         ![c].pc = IF toggleAutoSyncRejects(settings, enabled)
                   THEN "done" ELSE "toggleWrite"]
  /\ UNCHANGED <<ledgerVars, storeVars, queueLog, req, wk, sy, writes, proc, call>>

\* toggleAutoSync: prisma.shopSettings.update({autoSyncNewProducts})
ToggleAutoSyncWrite(c) ==
  /\ ov[c].pc = "toggleWrite"
  /\ settings' = [settings EXCEPT !.autoSyncNewProducts = ov[c].enabled]
  /\ ov' = [ov EXCEPT ![c].result = "success", ![c].pc = "done"]
  /\ UNCHANGED <<usageCount, storeVars, queueLog, req, wk, sy, writes, proc, call>>

NextPlan ==
  \/ \E c \in Callers : ToggleAutoSyncRead(c)
  \/ \E c \in Callers : ToggleAutoSyncWrite(c)
  \/ SubscriptionUpdate

SpecPlan == InitPlan /\ [][NextPlan]_vars

(***************************************************************************)
(* The Worker with an Analyzer that times out before it succeeds           *)
(***************************************************************************)
\* what the k-th analyzeProductImage call for an Item resolves to when the
\* API times out on every attempt but the last permitted one: the timeout
\* is thrown by the API client and returned as a VisionError
timedOutResponse(k) == IF k < attempts THEN "visionError" ELSE "result"

\* processor, with the Analyzer's response set by the attempt's number
AnalyzeTimedOut(w) ==
  AnalyzeAndStoreOf(w, {timedOutResponse(dispatched[wk[w].task])})

NextTimeouts ==
  \/ \E w \in Slots : Dispatch(w)
  \/ \E w \in Slots : AnalyzeTimedOut(w)
  \/ \E w \in Slots : RollupRead(w)
  \/ \E w \in Slots : RollupWrite(w)
  \/ \E w \in Slots : Catch(w)

SpecTimeouts == InitWorker /\ [][NextTimeouts]_vars
(***************************************************************************)
(* queue.server.ts: the task ids of arbitrary Item identifiers             *)
(***************************************************************************)
MaxIdLen == 3

\* the characters of an identifier: a letter, the replacement character
\* itself, and the two characters the queue does not accept
IdChars == {"a", "_", ":", "/"}

\* the identifiers of at most MaxIdLen characters, the empty one included
ItemIds == UNION {[1..n -> IdChars] : n \in 0..MaxIdLen}

\* a Job of two Items with identifiers of any form, as the start-scan action
\* has created it, its tasks not yet submitted
InitSanitize ==
  \E a \in ItemIds : \E b \in ItemIds \ {a} :
    /\ settings =
         [plan |-> "PRO", creditLimit |-> PRO_credits, creditsUsed |-> 0,
          autoSyncNewProducts |-> FALSE, billingPeriodStart |-> 0]
    /\ usageCount = 0
    /\ jobs = <<newJob(2)>>
    /\ products = [p \in {a, b} |-> newProduct(1)]
    /\ tasks = <<>>
    /\ admitted = <<>>
    /\ dispatched = <<>>
    /\ NoProcesses

\* queueBulkAnalysis(jobId, products) for the Items of the Job
QueueBulkAnalysis ==
  /\ tasks = <<>>
  /\ tasks' = addBulk(tasks, 1, DOMAIN products)
  /\ admitted' = admit(admitted, tasks, tasks')
  /\ UNCHANGED <<ledgerVars, jobs, products, dispatched, req, ov, wk, sy,
                 writes, proc, call>>

NextSanitize == QueueBulkAnalysis

SpecSanitize == InitSanitize /\ [][NextSanitize]_vars

(***************************************************************************)
(* The products/create webhook                                             *)
(***************************************************************************)
\* the shop when a product is created in its catalog: a Pro shop with
\* auto-sync on, at its limit or one credit short of it, and the Free and
\* the Pro shop with auto-sync off
InitWebhookSettings ==
  {[plan |-> "PRO", creditLimit |-> PRO_credits, creditsUsed |-> u,
    autoSyncNewProducts |-> TRUE, billingPeriodStart |-> 0] :
      u \in {PRO_credits - 1, PRO_credits}}
  \cup
  {[plan |-> "FREE", creditLimit |-> FREE_credits, creditsUsed |-> 49,
    autoSyncNewProducts |-> FALSE, billingPeriodStart |-> 0],
   [plan |-> "PRO", creditLimit |-> PRO_credits, creditsUsed |-> 60,
    autoSyncNewProducts |-> FALSE, billingPeriodStart |-> 0]}

InitWebhook ==
  /\ settings \in InitWebhookSettings
  /\ usageCount = settings.creditsUsed
  /\ EmptyStore
  /\ NoProcesses

\* action: prisma.shopSettings.findUnique, the return when auto-sync is off
\* and the return when the product of the payload has no image
WebhookSettings(r) ==
  /\ req[r].pc = "idle"
  /\ \E p \in Catalog : \E hasImage \in BOOLEAN :
       req' = [req EXCEPT
         ![r].batch = {p},
         ![r].result = IF ~settings.autoSyncNewProducts THEN "autoSyncOff"
                       ELSE IF ~hasImage THEN "noImage" ELSE "none",
         ![r].pc = IF settings.autoSyncNewProducts /\ hasImage
                   THEN "webhookCheck" ELSE "skipped"]
  /\ UNCHANGED <<ledgerVars, storeVars, queueLog, ov, wk, sy, writes, proc, call>>

\* action: hasAvailableCredits(shop) and the return when it is falsy
WebhookCheckCredits(r) ==
  /\ req[r].pc = "webhookCheck"
  /\ \E build \in BillingBuilds :
       req' = [req EXCEPT
         ![r].checked = [required |-> 1,
                         allowed |-> hasAvailableCredits(settings, 1)],
         ![r].result = IF hasCreditsTruthy(build, settings, 1)
                       THEN "none" ELSE "noCredits",
         ![r].pc = IF hasCreditsTruthy(build, settings, 1)
                   THEN "webhookCreateJob" ELSE "skipped"]
  /\ UNCHANGED <<ledgerVars, storeVars, queueLog, ov, wk, sy, writes, proc, call>>

\* action: prisma.job.create with totalItems: 1
WebhookCreateJob(r) ==
  /\ req[r].pc = "webhookCreateJob"
  /\ jobs' = Append(jobs, newJob(1))
  /\ req' = [req EXCEPT ![r].job = Len(jobs) + 1,
                        ![r].pc = "webhookCreateProduct"]
  /\ UNCHANGED <<ledgerVars, products, tasks, queueLog, ov, wk, sy, writes,
                 proc, call>>

\* action: prisma.product.create, which rejects when the id is stored
\* already; the webhook ends with the error then
WebhookCreateProduct(r) ==
  /\ req[r].pc = "webhookCreateProduct"
  /\ \E p \in req[r].batch :
       IF p \in DOMAIN products
       THEN /\ req' = [req EXCEPT ![r].pc = "failed"]
            /\ UNCHANGED products
       ELSE /\ products' = products @@ [q \in {p} |-> newProduct(req[r].job)]
            /\ req' = [req EXCEPT ![r].pc = "webhookQueue"]
  /\ UNCHANGED <<ledgerVars, jobs, tasks, queueLog, ov, wk, sy, writes, proc, call>>

\* action: queueProductAnalysis(job.id, productId, image, shop); useCredits
\* (shop, 1) follows
WebhookQueue(r) ==
  /\ req[r].pc = "webhookQueue"
  /\ \E p \in req[r].batch :
       tasks' = queueProductAnalysis(tasks, req[r].job, p)
  /\ admitted' = admit(admitted, tasks, tasks')
  /\ req' = [req EXCEPT ![r].pc = "useCreditsRead"]
  /\ UNCHANGED <<ledgerVars, jobs, products, dispatched, ov, wk, sy, writes,
                 proc, call>>

NextWebhook ==
  \/ \E r \in Reqs : WebhookSettings(r)
  \/ \E r \in Reqs : WebhookCheckCredits(r)
  \/ \E r \in Reqs : WebhookCreateJob(r)
  \/ \E r \in Reqs : WebhookCreateProduct(r)
  \/ \E r \in Reqs : WebhookQueue(r)
  \/ \E r \in Reqs : UseCreditsRead(r)
  \/ \E r \in Reqs : UseCreditsWrite(r)

SpecWebhook == InitWebhook /\ [][NextWebhook]_vars

(***************************************************************************)
(* The Worker with more tasks queued than it has slots                     *)
(***************************************************************************)
PoolItems == 3

\* a Job of PoolItems Items, its tasks queued
InitPool ==
  /\ AfterScan({Gid(k) : k \in 1..PoolItems})
  /\ NoProcesses

SpecPool == InitPool /\ [][NextWorker]_vars

(***************************************************************************)
(* queue.server.ts: the singletons of the module                           *)
(***************************************************************************)
MaxCalls == 6

\* what a call that threw has returned
Thrown == 0

\* the end of a call of fn, with its result, in the log of the process
ended(p, fn, result) ==
  [p EXCEPT !.returned = Append(@, [fn |-> fn, result |-> result])]

\* getAnalysisQueue(): getRedisConnectionOptions throws without REDIS_URL
getAnalysisQueue(p) ==
  IF p.analysisQueue # 0 THEN ended(p, "getAnalysisQueue", p.analysisQueue)
  ELSE IF ~p.redisUrl THEN ended(p, "getAnalysisQueue", Thrown)
  ELSE LET q == Cardinality(p.queues) + 1 IN
       ended([p EXCEPT !.analysisQueue = q, !.queues = @ \cup {q}],
             "getAnalysisQueue", q)

\* startAnalysisWorker without the test of the singleton
startAnalysisWorker_noGuard(p) ==
  IF ~p.redisUrl THEN ended(p, "startAnalysisWorker", Thrown)
  ELSE LET w == Cardinality(p.workers) + 1 IN
       ended([p EXCEPT !.analysisWorker = w, !.workers = @ \cup {w}],
             "startAnalysisWorker", w)

\* startAnalysisWorker(): the Worker that exists, or a new one;
\* getRedisConnectionOptions throws without REDIS_URL
startAnalysisWorker(p) ==
  IF p.analysisWorker # 0
  THEN ended(p, "startAnalysisWorker", p.analysisWorker)
  ELSE IF ~p.redisUrl THEN ended(p, "startAnalysisWorker", Thrown)
  ELSE LET w == Cardinality(p.workers) + 1 IN
       ended([p EXCEPT !.analysisWorker = w, !.workers = @ \cup {w}],
             "startAnalysisWorker", w)

\* the process with or without REDIS_URL in its environment, before
\* db.server.ts has imported the module
InitModule ==
  /\ settings \in InitSettings
  /\ usageCount = settings.creditsUsed
  /\ EmptyStore
  /\ req = [r \in Reqs |-> idleReq]
  /\ ov = [c \in Callers |-> idleCaller]
  /\ wk = [w \in Slots |-> idleSlot]
  /\ sy = idleSync
  /\ writes = {}
  /\ \E redisUrl \in BOOLEAN : proc = [idleProc EXCEPT !.redisUrl = redisUrl]
  /\ call = idleCall

\* import("./services/queue.server"): the module is evaluated once, and it
\* calls startAnalysisWorker() when REDIS_URL is set
LoadModule ==
  /\ ~proc.loaded
  /\ proc' = IF proc.redisUrl
             THEN startAnalysisWorker([proc EXCEPT !.loaded = TRUE])
             ELSE [proc EXCEPT !.loaded = TRUE]
  /\ UNCHANGED <<ledgerVars, storeVars, queueLog, req, ov, wk, sy, writes,
                 call>>

\* a call of startAnalysisWorker() by an importer of the module
StartAnalysisWorker ==
  /\ proc.loaded
  /\ Len(proc.returned) < MaxCalls
  /\ proc' = startAnalysisWorker(proc)
  /\ UNCHANGED <<ledgerVars, storeVars, queueLog, req, ov, wk, sy, writes,
                 call>>

\* a call of getAnalysisQueue(), as queueProductAnalysis, queueBulkAnalysis
\* and getQueueStats make it
GetAnalysisQueue ==
  /\ proc.loaded
  /\ Len(proc.returned) < MaxCalls
  /\ proc' = getAnalysisQueue(proc)
  /\ UNCHANGED <<ledgerVars, storeVars, queueLog, req, ov, wk, sy, writes,
                 call>>

NextModule ==
  \/ LoadModule
  \/ StartAnalysisWorker
  \/ GetAnalysisQueue

SpecModule == InitModule /\ [][NextModule]_vars

(***************************************************************************)
(* withRetry: the retry loop of the product service                        *)
(***************************************************************************)
MaxRetriesArg == 4

\* the letters, for String.prototype.toLowerCase
UpperCase == <<"A", "B", "C", "D", "E", "F", "G", "H", "I", "J", "K", "L", "M",
               "N", "O", "P", "Q", "R", "S", "T", "U", "V", "W", "X", "Y", "Z">>
LowerCase == <<"a", "b", "c", "d", "e", "f", "g", "h", "i", "j", "k", "l", "m",
               "n", "o", "p", "q", "r", "s", "t", "u", "v", "w", "x", "y", "z">>

\* s.toLowerCase(), for s a sequence of characters
toLowerCase(s) ==
  [k \in 1..Len(s) |->
     IF \E n \in 1..Len(UpperCase) : UpperCase[n] = s[k]
     THEN LowerCase[CHOOSE n \in 1..Len(UpperCase) : UpperCase[n] = s[k]]
     ELSE s[k]]

\* s.includes(pattern)
includes(s, pattern) ==
  \E i \in 1..(Len(s) - Len(pattern) + 1) :
    SubSeq(s, i, i + Len(pattern) - 1) = pattern

\* the messages of the errors fn throws: those the loop retries on, as the
\* API and the tests word them, and one it does not retry on
RetryableMessages ==
  {<<"4", "2", "9">>,
   <<"T", "h", "r", "o", "t", "t", "l", "e", "d">>,
   <<"r", "a", "t", "e">>,
   <<"5", "0", "0">>,
   <<"T", "I", "M", "E", "O", "U", "T">>}
OtherMessages == {<<"I", "n", "v", "a", "l", "i", "d">>}
ErrorMessages == RetryableMessages \cup OtherMessages

\* isRetryable, on the message as it is spelt
isRetryable_caseSensitive(message) ==
  \/ includes(message, <<"4", "2", "9">>)
  \/ includes(message, <<"t", "h", "r", "o", "t", "t", "l", "e", "d">>)
  \/ includes(message, <<"r", "a", "t", "e">>)
  \/ includes(message, <<"5", "0", "0">>)
  \/ includes(message, <<"t", "i", "m", "e", "o", "u", "t">>)

\* isRetryable: errorMsg = lastError.message.toLowerCase() includes one of
\* "429", "throttled", "rate", "500", "timeout"
isRetryable(message) ==
  \/ includes(toLowerCase(message), <<"4", "2", "9">>)
  \/ includes(toLowerCase(message), <<"t", "h", "r", "o", "t", "t", "l", "e", "d">>)
  \/ includes(toLowerCase(message), <<"r", "a", "t", "e">>)
  \/ includes(toLowerCase(message), <<"5", "0", "0">>)
  \/ includes(toLowerCase(message), <<"t", "i", "m", "e", "o", "u", "t">>)

\* withRetry(fn, {maxRetries}) is called: attempt = 0, lastError = null;
\* calls counts the calls of fn, errors keeps what fn threw
WithRetryCall ==
  /\ call.pc = "idle"
  /\ \E maxRetries \in 0..MaxRetriesArg :
       call' = [pc |-> "loop", fn |-> "withRetry", maxRetries |-> maxRetries,
                attempt |-> 0, calls |-> 0, errors |-> <<>>,
                lastError |-> <<>>]
  /\ UNCHANGED <<ledgerVars, storeVars, queueLog, req, ov, wk, sy, writes,
                 proc>>

\* one pass of the for loop: the test attempt < maxRetries, the call of fn,
\* the return of its value or the catch block; after the loop, throw lastError
WithRetryAttempt ==
  /\ call.pc = "loop"
  /\ IF call.attempt < call.maxRetries
     THEN \/ call' = [call EXCEPT !.calls = @ + 1, !.pc = "returned"]
          \/ \E e \in ErrorMessages :
               call' = [call EXCEPT
                 !.calls = @ + 1,
                 !.errors = Append(@, e),
                 !.lastError = e,
                 !.pc = IF ~isRetryable(e)
                           \/ call.attempt = call.maxRetries - 1
                        THEN "thrown" ELSE "delay"]
     ELSE call' = [call EXCEPT !.pc = "thrown"]
  /\ UNCHANGED <<ledgerVars, storeVars, queueLog, req, ov, wk, sy, writes,
                 proc>>

\* the timer of baseDelayMs fires: attempt++
WithRetryDelay ==
  /\ call.pc = "delay"
  /\ call' = [call EXCEPT !.attempt = @ + 1, !.pc = "loop"]
  /\ UNCHANGED <<ledgerVars, storeVars, queueLog, req, ov, wk, sy, writes,
                 proc>>

NextRetry ==
  \/ WithRetryCall
  \/ WithRetryAttempt
  \/ WithRetryDelay

\* fn settles and the timer fires: a step that is enabled is taken
SpecRetry == Init /\ [][NextRetry]_vars /\ WF_vars(NextRetry)

(***************************************************************************)
(* products.server.ts: fetchAllProducts                                    *)
(***************************************************************************)
MaxPages == 2

\* Math.min(50, ...): the most products a request asks for
pageSize == 50

\* the numbers of products in the shop: around the multiples of a page
CatalogSizes ==
  {n \in {k * pageSize + d : k \in 0..MaxPages, d \in {-1, 0, 1}} : n >= 0}

\* the limits of the callers: none, the tests' 1 and 10, a page, the
\* start-scan action's 100, the default 250, and one that ends inside a page
FetchLimits == {0, 1, 10, pageSize, pageSize + 10, 100, 250}

\* the products without a featured image, by their position in the shop:
\* some at the ends of the first page, or every product
NoImagePatterns(size) ==
  {S \cap (1..size) : S \in SUBSET {1, pageSize, pageSize + 1}}
    \cup {1..size}

\* the request always asking for a full page
pageFirst_fullPage(limit, collected) == pageSize

\* variables.first: Math.min(50, limit - products.length)
pageFirst(limit, collected) == Min(pageSize, limit - collected)

\* the response of products(first: $first, after: $after): the edges after
\* the cursor, at most `first` of them, and pageInfo.hasNextPage; a product
\* is its position in the shop and an edge's cursor is that position
productsPage(size, first, after) ==
  LET last == Min(after + first, size) IN
  [edges |-> [i \in 1..(last - after) |-> after + i],
   hasNextPage |-> last < size]

\* fetchAllProducts(admin, limit) is called: products = [], hasNextPage =
\* true, cursor = null
FetchAllProductsCall ==
  /\ call.pc = "idle"
  /\ \E size \in CatalogSizes : \E limit \in FetchLimits :
     \E noImage \in NoImagePatterns(size) :
       call' = [pc |-> "loop", fn |-> "fetchAllProducts", limit |-> limit,
                size |-> size, noImage |-> noImage, products |-> <<>>,
                hasNextPage |-> TRUE, cursor |-> 0, requests |-> 0]
  /\ UNCHANGED <<ledgerVars, storeVars, queueLog, req, ov, wk, sy, writes,
                 proc>>

\* one pass of the while loop: the request of a page, the push of its
\* products that have an image, hasNextPage and cursor; or the return
FetchPage ==
  /\ call.pc = "loop"
  /\ IF call.hasNextPage /\ Len(call.products) < call.limit
     THEN LET page == productsPage(call.size,
                                   pageFirst(call.limit, Len(call.products)),
                                   call.cursor)
              hasImage(k) == k \notin call.noImage
          IN  call' = [call EXCEPT
                !.products = @ \o SelectSeq(page.edges, hasImage),
                !.hasNextPage = page.hasNextPage,
                !.cursor = IF Len(page.edges) > 0
                           THEN page.edges[Len(page.edges)] ELSE 0,
                !.requests = @ + 1]
     ELSE call' = [call EXCEPT !.pc = "returned"]
  /\ UNCHANGED <<ledgerVars, storeVars, queueLog, req, ov, wk, sy, writes,
                 proc>>

NextFetch ==
  \/ FetchAllProductsCall
  \/ FetchPage

SpecFetch == Init /\ [][NextFetch]_vars

(***************************************************************************)
(* metafields.server.ts: toMetafieldInputs                                 *)
(***************************************************************************)
MaxFields == 4

\* the own keys of METAFIELD_MAPPINGS
MappedKeys ==
  {"color", "pattern", "material", "target_gender", "age_group", "neckline",
   "sleeve_length", "fit"}

\* METAFIELD_MAPPINGS is an object literal: the properties of
\* Object.prototype are found under their keys as well
ObjectPrototypeKeys ==
  {"constructor", "toString", "valueOf", "hasOwnProperty", "isPrototypeOf",
   "propertyIsEnumerable", "toLocaleString", "__proto__"}

\* METAFIELD_MAPPINGS[key]: the mapping, or an inherited function or object
\* (truthy, with no namespace, key or type of its own), or undefined
mappingOf(key) ==
  IF key \in MappedKeys
  THEN [truthy |-> TRUE, namespace |-> "custom", key |-> key,
        type |-> "single_line_text_field"]
  ELSE IF key \in ObjectPrototypeKeys
  THEN [truthy |-> TRUE, namespace |-> undefined, key |-> undefined,
        type |-> undefined]
  ELSE [truthy |-> FALSE, namespace |-> undefined, key |-> undefined,
        type |-> undefined]

\* the keys a parsed AI response may hold, in the order of Object.entries:
\* mapped keys, a key that is not mapped, and a key of Object.prototype
FieldKeys ==
  <<"color", "unknown_field", "constructor", "pattern", "neckline",
    "toString", "fit">>
InputKeys == {FieldKeys[n] : n \in 1..Min(MaxFields, Len(FieldKeys))}

\* the values of a key: a string, a number, null, undefined; s is
\* String(value)
FieldValues ==
  {[t |-> "string", s |-> "Blue"], [t |-> "number", s |-> "5"],
   [t |-> "null", s |-> "null"], [t |-> "undefined", s |-> "undefined"]}

\* the metafields objects: every choice of keys with a value each
MetafieldObjects == UNION {[S -> FieldValues] : S \in SUBSET InputKeys}

\* toMetafieldInputs(metafields): the entries are visited in their order
toMetafieldInputs(metafields) ==
  LET pushed(n) ==
        /\ FieldKeys[n] \in DOMAIN metafields
        /\ metafields[FieldKeys[n]].t \notin {"null", "undefined"}
        /\ mappingOf(FieldKeys[n]).truthy
      visit[n \in 0..Len(FieldKeys)] ==
        IF n = 0 THEN <<>>
        ELSE IF pushed(n)
             THEN Append(visit[n - 1],
                         [namespace |-> mappingOf(FieldKeys[n]).namespace,
                          key |-> mappingOf(FieldKeys[n]).key,
                          value |-> metafields[FieldKeys[n]].s,
                          type |-> mappingOf(FieldKeys[n]).type])
             ELSE visit[n - 1]
  IN  visit[Len(FieldKeys)]

\* toMetafieldInputs is called with a metafields object
ToMetafieldInputsCall ==
  /\ call.pc = "idle"
  /\ \E metafields \in MetafieldObjects :
       call' = [pc |-> "called", fn |-> "toMetafieldInputs",
                metafields |-> metafields, inputs |-> <<>>]
  /\ UNCHANGED <<ledgerVars, storeVars, queueLog, req, ov, wk, sy, writes,
                 proc>>

\* it returns its inputs
ToMetafieldInputsReturn ==
  /\ call.pc = "called"
  /\ call' = [call EXCEPT !.inputs = toMetafieldInputs(call.metafields),
                          !.pc = "returned"]
  /\ UNCHANGED <<ledgerVars, storeVars, queueLog, req, ov, wk, sy, writes,
                 proc>>

NextMetafields ==
  \/ ToMetafieldInputsCall
  \/ ToMetafieldInputsReturn

SpecMetafields == Init /\ [][NextMetafields]_vars

(***************************************************************************)
(* billing.server.ts (managed pricing build): syncPlanFromShopify          *)
(***************************************************************************)
\* the statuses of the subscriptions in activeSubscriptions
ReportedStatuses == {"ACTIVE", "FROZEN", "PENDING"}

\* subscriptions.some((sub) => sub.status === "ACTIVE")
hasActive(subscriptions) == \E status \in subscriptions : status = "ACTIVE"

\* the test of the plan with the upgrade made whenever a subscription is
\* active
planChange_always(active, currentPlan) ==
  IF active THEN "upgrade"
  ELSE IF currentPlan # "FREE" THEN "downgrade"
  ELSE "none"

\* the branch taken on hasActive and currentPlan
planChange(active, currentPlan) ==
  IF active /\ currentPlan # "PRO" THEN "upgrade"
  ELSE IF ~active /\ currentPlan # "FREE" THEN "downgrade"
  ELSE "none"

\* syncPlanFromShopify(admin, shop) is called: admin.graphql answers with
\* the subscriptions of the installation, or throws; `before` keeps the row
\* as it was when the call began
SyncPlanQuery ==
  /\ call.pc \in {"idle", "returned"}
  /\ \E subscriptions \in SUBSET ReportedStatuses : \E throws \in BOOLEAN :
       call' = [pc |-> IF throws THEN "caught" ELSE "queried",
                fn |-> "syncPlanFromShopify",
                subscriptions |-> subscriptions, threw |-> throws,
                before |-> settings, currentPlan |-> settings.plan,
                result |-> [plan |-> settings.plan, synced |-> FALSE]]
  /\ UNCHANGED <<ledgerVars, storeVars, queueLog, req, ov, wk, sy, writes,
                 proc>>

\* getOrCreateShopSettings(shop): currentPlan
SyncPlanRead ==
  /\ call.pc = "queried"
  /\ call' = [call EXCEPT !.currentPlan = settings.plan, !.pc = "decide"]
  /\ UNCHANGED <<ledgerVars, storeVars, queueLog, req, ov, wk, sy, writes,
                 proc>>

\* upgradeToProPlan or downgradeToFreePlan and {plan, synced: true}, or
\* {plan: currentPlan, synced: false}
SyncPlanWrite ==
  /\ call.pc = "decide"
  /\ LET change == planChange(hasActive(call.subscriptions), call.currentPlan)
     IN  /\ change = "upgrade" => settings.billingPeriodStart < MaxPeriod
         /\ settings' =
              IF change = "upgrade" THEN upgradeToProPlanUpdate(settings)
              ELSE IF change = "downgrade"
                   THEN downgradeToFreePlanUpdate(settings)
                   ELSE settings
         /\ usageCount' = IF change = "upgrade" THEN 0 ELSE usageCount
         /\ call' = [call EXCEPT
              !.result = IF change = "upgrade"
                         THEN [plan |-> "PRO", synced |-> TRUE]
                         ELSE IF change = "downgrade"
                              THEN [plan |-> "FREE", synced |-> TRUE]
                              ELSE [plan |-> call.currentPlan,
                                    synced |-> FALSE],
              !.pc = "returned"]
  /\ UNCHANGED <<storeVars, queueLog, req, ov, wk, sy, writes, proc>>

\* the catch block: getOrCreateShopSettings and {plan, synced: false}
SyncPlanCatch ==
  /\ call.pc = "caught"
  /\ call' = [call EXCEPT
       !.result = [plan |-> settings.plan, synced |-> FALSE],
       !.pc = "returned"]
  /\ UNCHANGED <<ledgerVars, storeVars, queueLog, req, ov, wk, sy, writes,
                 proc>>

NextSyncPlan ==
  \/ SyncPlanQuery
  \/ SyncPlanRead
  \/ SyncPlanWrite
  \/ SyncPlanCatch

\* the loads of the billing page of a shop, one after the other
SpecSyncPlan == Init /\ [][NextSyncPlan]_vars

(***************************************************************************)
(* The Worker and the sync action on the same Items                        *)
(***************************************************************************)
\* the processors of the Worker and a sync request of the job page take
\* their steps in any order
NextScanSync ==
  \/ NextWorker
  \/ NextSync

\* a Job of one Item whose task is in the queue, and its page open
InitScanSync ==
  /\ AfterScan({Gid(1)})
  /\ NoProcesses

SpecScanSync == InitScanSync /\ [][NextScanSync]_vars

(***************************************************************************)
(* app.jobs.$id.tsx: the sync action in a store that holds two Jobs        *)
(***************************************************************************)
\* the Job an Item belongs to: the last Item is the Item of a second Job
jobOf(k) == IF k < SyncItems THEN 1 ELSE 2

\* two completed Jobs: Job 1 with the Items before the last, Job 2 with the
\* last one; the Items of `analyzed` are ANALYZED, the others in the status
\* of their position
InitJobPages ==
  \E analyzed \in SUBSET (1..SyncItems) :
    LET status(k) == IF k \in analyzed THEN "ANALYZED" ELSE OtherStatus(k)
        ids == {Gid(k) : k \in 1..SyncItems}
        num(p) == CHOOSE k \in 1..SyncItems : Gid(k) = p
        items(j) == Cardinality({k \in 1..SyncItems : jobOf(k) = j})
    IN  /\ settings =
             [plan |-> "PRO", creditLimit |-> PRO_credits,
              creditsUsed |-> SyncItems,
              autoSyncNewProducts |-> FALSE, billingPeriodStart |-> 0]
        /\ usageCount = SyncItems
        /\ products =
             [p \in ids |->
                [settledProduct(status(num(p))) EXCEPT
                   !.jobId = jobOf(num(p))]]
        /\ jobs =
             [j \in 1..2 |->
                [newJob(items(j)) EXCEPT
                   !.processed = processedCount(products, j),
                   !.status = rollupStatus(processedCount(products, j),
                                           items(j))]]
        /\ tasks =
             [t \in {taskId(jobOf(num(p)), p) : p \in ids} |->
                LET p == CHOOSE q \in ids : taskId(jobOf(num(q)), q) = t
                IN  [settledTask(num(p), status(num(p))) EXCEPT
                       !.jobId = jobOf(num(p))]]
        /\ admitted = [t \in DOMAIN tasks |-> 1]
        /\ dispatched =
             [t \in {u \in DOMAIN tasks : tasks[u].state = "completed"} |-> 1]
        /\ NoProcesses

\* a sync request sent to the page of one of the two Jobs
SpecJobPages == InitJobPages /\ [][NextSync]_vars


(***************************************************************************)
(* Properties of the ledger                                                *)
(***************************************************************************)
\* C1: on a plan without overage (every plan of the hard cap build)
\* creditsUsed never exceeds creditLimit, whatever the interleaving of
\* admission checks, useCredits, resetCredits and plan changes.
C1_UsedWithinLimit == settings.creditsUsed <= settings.creditLimit

\* C2: on a plan with overage enabled creditsUsed never exceeds
\* creditLimit + floor(overageCap / overagePrice), whatever the sequence and
\* interleaving of hasAvailableCredits and useCredits calls.
C2_UsedWithinOverageCap ==
  overageEnabled(settings.plan) =>
    settings.creditsUsed <= settings.creditLimit + (overageCap \div overagePrice)

\* a consume call that went into the overage and filled it to the cap
C2_Witness ==
  /\ overageEnabled(settings.plan)
  /\ settings.creditsUsed = settings.creditLimit + (overageCap \div overagePrice)
  /\ \E c \in Callers :
       /\ ov[c].pc = "done" /\ ov[c].result = "consumed"
       /\ ov[c].read.creditsUsed < settings.creditsUsed

\* C3: two scan requests of one shop whose consume steps read the ledger in
\* the current billing period and whose unit counts together exceed the
\* credits that remained before either of them consumed do not both have
\* their consume succeed: at least one is rejected.
C3_NoJointOvershoot ==
  \A a, b \in Reqs :
    ( /\ a # b
      /\ req[a].pc = "done" /\ req[b].pc = "done"
      /\ req[a].read.billingPeriodStart = settings.billingPeriodStart
      /\ req[b].read.billingPeriodStart = settings.billingPeriodStart
      /\ Cardinality(req[a].batch) + Cardinality(req[b].batch)
           > Max(req[a].read.creditLimit, req[b].read.creditLimit)
               - Min(req[a].read.creditsUsed, req[b].read.creditsUsed) )
    => ~(req[a].result = "consumed" /\ req[b].result = "consumed")

\* C9: a scan request whose admission check finds fewer credits remaining
\* than it has items ends there: the step creates no Job, no Product, no
\* task and changes no ledger row, and the request takes no further step.
C9_DeniedCreatesNothing ==
  [][\A r \in Reqs :
       /\ ( /\ req[r].pc = "check" /\ req'[r].pc # "check"
            /\ creditsRemaining(settings) < Cardinality(req[r].batch) )
          => /\ req'[r].pc = "denied"
             /\ req'[r].job = NoJob /\ req'[r].result = "none"
             /\ UNCHANGED <<settings, usageCount, jobs, products, tasks>>
       /\ req[r].pc = "denied" => req'[r] = req[r]]_vars

\* C10: on an overage plan a request that exceeds the remaining plan credits
\* is admitted exactly when its shortfall fits under the overage cap, then
\* with overageCount = requested - remaining.
C10_OverageAdmission ==
  \A c \in Callers :
    LET s == ov[c].seen
        n == ov[c].required
        remaining == Max(0, s.creditLimit - s.creditsUsed)
        fits == s.creditsUsed + n
                  <= s.creditLimit + (overageCap \div overagePrice)
    IN  (ov[c].pc = "checked" /\ overageEnabled(s.plan) /\ n > remaining)
        => /\ ov[c].check.allowed <=> fits
           /\ ov[c].check.allowed =>
                /\ ov[c].check.useOverage
                /\ ov[c].check.overageCount = n - remaining

(***************************************************************************)
(* Properties of the Job rollup and the Item status                        *)
(***************************************************************************)
\* C4: for every Job, in every reachable state, processed <= totalItems,
\* and status = COMPLETED if and only if processed = totalItems.
C4_JobRollupConsistent ==
  \A j \in 1..Len(jobs) :
    /\ jobs[j].processed <= jobs[j].totalItems
    /\ jobs[j].status = "COMPLETED" <=> jobs[j].processed = jobs[j].totalItems

\* a rollup has written the Job as completed, another one as in progress
C4_Witness ==
  /\ \E j \in 1..Len(jobs) :
       /\ jobs[j].status = "COMPLETED"
       /\ jobs[j].processed = jobs[j].totalItems
       /\ jobs[j].totalItems = WorkerItems
  /\ \A t \in DOMAIN dispatched : dispatched[t] >= 1
  /\ \A w \in Slots : wk[w].pc = "idle"

\* C5: for every Job, processed never decreases, also when the rollups of
\* two workers that settle sibling Items interleave.
C5_ProcessedMonotonic ==
  [][\A j \in 1..Len(jobs) :
       jobs'[j].processed >= jobs[j].processed]_vars

\* C6: every change of an Item's status is PENDING -> ANALYZED,
\* PENDING -> ERROR or ANALYZED -> SYNCED.
C6_ItemTransitions ==
  [][\A p \in DOMAIN products :
       (p \in DOMAIN products' /\ products'[p].status # products[p].status)
       => <<products[p].status, products'[p].status>> \in
            {<<"PENDING", "ANALYZED">>, <<"PENDING", "ERROR">>,
             <<"ANALYZED", "SYNCED">>}]_vars

(***************************************************************************)
(* Properties of the sync                                                  *)
(***************************************************************************)
\* C8: when the sync returns, every selected Item that was ANALYZED has had
\* each selected field group written (no Item is left out because an
\* earlier one failed), the Items whose writes all succeeded are SYNCED and
\* are counted in synced, the Items with a failed write stay ANALYZED and
\* are counted in errors.
C8_SyncCounts ==
  sy.pc = "done" =>
    LET ids == {sy.productIds[k] : k \in 1..Len(sy.productIds)}
        eligible ==
          {p \in ids \cap DOMAIN products :
             \/ products[p].status = "ANALYZED"
             \/ products[p].status = "SYNCED" /\ products[p].syncedAt = SyncNow}
        failed(p) == \E w \in writes : w.productId = p /\ ~w.ok
        written(p, g) == \E w \in writes : w.productId = p /\ w.group = g
    IN  /\ sy.synced = Cardinality({p \in eligible : ~failed(p)})
        /\ sy.errors = Cardinality({p \in eligible : failed(p)})
        /\ \A p \in eligible :
             /\ sy.syncMetafields => written(p, "metafields")
             /\ sy.syncTags => written(p, "tags")
             /\ failed(p) <=> products[p].status = "ANALYZED"
        /\ \A w \in writes : w.productId \in eligible

\* three Items selected, the first fails one write: the two after it are
\* SYNCED, and the counts are 2 and 1
C8_Witness ==
  /\ sy.pc = "done"
  /\ sy.productIds = <<Gid(1), Gid(2), Gid(3)>>
  /\ [productId |-> Gid(1), group |-> "tags", ok |-> FALSE] \in writes
  /\ [productId |-> Gid(1), group |-> "metafields", ok |-> TRUE] \in writes
  /\ products[Gid(1)].status = "ANALYZED"
  /\ products[Gid(2)].status = "SYNCED" /\ products[Gid(2)].syncedAt = SyncNow
  /\ products[Gid(3)].status = "SYNCED" /\ products[Gid(3)].syncedAt = SyncNow
  /\ sy.synced = 2 /\ sy.errors = 1

(***************************************************************************)
(* Properties of the queue                                                 *)
(***************************************************************************)
\* C7: however often the task of a (jobId, itemId) is submitted, the queue
\* creates a record for it, and so has it executed, at most once: a later
\* submission under the same task id is not admitted.
C7_AdmittedOnce == \A t \in DOMAIN admitted : admitted[t] <= 1

(***************************************************************************)
(* Properties of plan changes and of Job creation                          *)
(***************************************************************************)
\* the monthly quota of a plan
planCredits(plan) == IF plan = "PRO" THEN PRO_credits ELSE FREE_credits

\* C13: every change of the plan, upgrade and downgrade alike, sets
\* creditsUsed to 0 and creditLimit to the quota of the new plan, and a
\* downgrade turns auto-sync off.
C13_PlanChangeResets ==
  [][settings'.plan # settings.plan =>
       /\ settings'.creditsUsed = 0
       /\ settings'.creditLimit = planCredits(settings'.plan)
       /\ settings'.plan = "FREE" => ~settings'.autoSyncNewProducts]_vars

\* C14: in every state every Job has exactly totalItems Items, and every
\* Item belongs to a Job.
C14_JobWithAllItems ==
  /\ \A j \in 1..Len(jobs) :
       Cardinality({p \in DOMAIN products : products[p].jobId = j})
         = jobs[j].totalItems
  /\ \A p \in DOMAIN products : products[p].jobId \in 1..Len(jobs)

\* C20: in every state auto-sync is on only for a shop on the Pro plan,
\* whatever the order and interleaving of toggleAutoSync calls and plan
\* changes.
C20_AutoSyncProOnly == settings.autoSyncNewProducts => settings.plan = "PRO"

(***************************************************************************)
(* Properties of the processor's failure handling                          *)
(***************************************************************************)
\* C11: with an Analyzer that times out on the first two attempts and
\* succeeds on the third, a task that has finished has been dispatched
\* exactly three times and has left its Item ANALYZED.
C11_ThirdAttemptAnalyzes ==
  \A t \in DOMAIN tasks :
    tasks[t].state \in {"completed", "failed"} =>
      /\ dispatched[t] = attempts
      /\ products[tasks[t].productId].status = "ANALYZED"

C16_PendingWhileRetriesRemain ==
  [][\A w \in Slots :
       ( /\ wk[w].pc = "catch" /\ wk'[w].pc = "idle"
         /\ tasks[wk[w].task].attemptsMade + 1 < attempts
         /\ tasks[wk[w].task].productId \in DOMAIN products
         /\ products[tasks[wk[w].task].productId].status = "PENDING" )
       => products'[tasks[wk[w].task].productId].status = "PENDING"]_vars

(***************************************************************************)
(* Properties of the sync, Item by Item                                    *)
(***************************************************************************)
\* C17: when the sync stores the outcome of an eligible Item, the Item is
\* SYNCED with syncedAt stamped if none of its selected writes failed;
\* otherwise it stays ANALYZED with the failure reasons, joined, as its
\* error.  An ANALYZED Item is processed whatever error an earlier sync
\* has left on it.
C17_SyncOutcomePerItem ==
  [][/\ sy.pc = "store" =>
          LET p == sy.productIds[sy.i]
              failedGroups ==
                {w.group : w \in {v \in writes : v.productId = p /\ ~v.ok}}
          IN  IF failedGroups = {}
              THEN /\ products'[p].status = "SYNCED"
                   /\ products'[p].syncedAt = SyncNow
                   /\ sy'.synced = sy.synced + 1 /\ sy'.errors = sy.errors
              ELSE /\ products'[p].status = "ANALYZED"
                   /\ products'[p].syncedAt = products[p].syncedAt
                   /\ products'[p].error =
                        IF failedGroups = {"metafields", "tags"}
                        THEN "metafields; tags"
                        ELSE IF failedGroups = {"metafields"}
                             THEN "metafields" ELSE "tags"
                   /\ sy'.errors = sy.errors + 1 /\ sy'.synced = sy.synced
     /\ ( /\ sy.pc = "find"
          /\ sy.productIds[sy.i] \in DOMAIN products
          /\ products[sy.productIds[sy.i]].status = "ANALYZED" )
        => sy'.pc = "metafields"]_vars

\* an Item that an earlier sync had failed on is SYNCED now, and an Item
\* whose two writes failed is ANALYZED with both reasons
C17_Witness ==
  /\ sy.pc = "done"
  /\ products[Gid(1)].status = "SYNCED"
  /\ products[Gid(1)].syncedAt = SyncNow
  /\ products[Gid(1)].error = "tags"
  /\ products[Gid(2)].status = "ANALYZED"
  /\ products[Gid(2)].error = "metafields; tags"
  /\ sy.synced = 1 /\ sy.errors = 1

\* C18: the sync leaves every Item that is not ANALYZED as it is, issues no
\* catalog write for an Item that is not stored as ANALYZED, and passes over
\* a selected id whose row is missing or not ANALYZED without a write and
\* without counting it.
C18_IneligibleSkipped ==
  [][/\ DOMAIN products' = DOMAIN products
     /\ \A p \in DOMAIN products :
          products[p].status # "ANALYZED" => products'[p] = products[p]
     /\ \A w \in writes' \ writes :
          /\ w.productId \in DOMAIN products
          /\ products[w.productId].status = "ANALYZED"
     /\ ( /\ sy.pc = "find"
          /\ ~( /\ sy.productIds[sy.i] \in DOMAIN products
                /\ products[sy.productIds[sy.i]].status = "ANALYZED" ) )
        => /\ sy'.synced = sy.synced /\ sy'.errors = sy.errors
           /\ sy'.i = sy.i + 1
           /\ writes' = writes]_vars

\* a missing row, a PENDING, an ERROR and a SYNCED Item were selected with
\* both field groups: nothing written, nothing counted, nothing changed
C18_Witness ==
  /\ sy.pc = "done"
  /\ sy.productIds = <<Gid(0), Gid(1), Gid(2), Gid(3)>>
  /\ sy.syncMetafields /\ sy.syncTags
  /\ products[Gid(1)] = settledProduct("PENDING")
  /\ products[Gid(2)] = settledProduct("ERROR")
  /\ products[Gid(3)] = settledProduct("SYNCED")
  /\ writes = {}
  /\ sy.synced = 0 /\ sy.errors = 0

(***************************************************************************)
(* Properties of the task ids                                              *)
(***************************************************************************)
\* C12: the sanitized identifier of every Item, and so every task id in the
\* queue, holds no ":" and no "/"; and two Items whose identifiers have the
\* same unsafe characters at the same positions, differing in safe
\* characters only, have different task ids, each with its own record.
C12_SanitizedIds ==
  LET unsafe == {":", "/"}
      unsafeAt(id) == {k \in 1..Len(id) : id[k] \in unsafe}
      clean(id) == \A k \in 1..Len(id) : id[k] \notin unsafe
      sameUnsafe(p, q) ==
        /\ unsafeAt(p) = unsafeAt(q)
        /\ \A k \in unsafeAt(p) : p[k] = q[k]
  IN  /\ \A p \in DOMAIN products : clean(sanitizeJobId(p))
      /\ \A t \in DOMAIN tasks : clean(t[2])
      /\ \A p \in DOMAIN products : \A q \in DOMAIN products \ {p} :
           sameUnsafe(p, q) =>
             /\ sanitizeJobId(p) # sanitizeJobId(q)
             /\ tasks # <<>> =>
                  /\ taskId(1, p) \in DOMAIN tasks
                  /\ tasks[taskId(1, p)].productId = p

\* the Items a:/ and _:/ have been submitted: two records, under the task
\* ids of a__ and ___
C12_Witness ==
  /\ DOMAIN products = {<<"a", ":", "/">>, <<"_", ":", "/">>}
  /\ DOMAIN tasks = {<<1, <<"a", "_", "_">>>>, <<1, <<"_", "_", "_">>>>}
  /\ tasks[<<1, <<"a", "_", "_">>>>].productId = <<"a", ":", "/">>
  /\ tasks[<<1, <<"_", "_", "_">>>>].productId = <<"_", ":", "/">>

(***************************************************************************)
(* Properties of the products/create webhook                               *)
(***************************************************************************)
\* C19: a products/create webhook that finds auto-sync off, or that finds
\* less than 1 credit remaining at its admission check, ends there: it
\* creates no Job, no Item and no task and consumes no credit.  Only a
\* webhook past both tests writes anything.
C19_WebhookGated ==
  [][\A r \in Reqs :
       /\ ( /\ req[r].pc = "idle" /\ req'[r].pc # "idle"
            /\ ~settings.autoSyncNewProducts ) => req'[r].pc = "skipped"
       /\ ( /\ req[r].pc = "webhookCheck" /\ req'[r].pc # "webhookCheck"
            /\ creditsRemaining(settings) < 1 ) => req'[r].pc = "skipped"
       /\ ( /\ req[r].pc \in {"idle", "webhookCheck"}
            /\ req'[r].pc # req[r].pc ) =>
          /\ jobs' = jobs /\ products' = products /\ tasks' = tasks
          /\ settings' = settings /\ usageCount' = usageCount
       /\ req[r].pc = "skipped" => req'[r] = req[r]]_vars

(***************************************************************************)
(* Properties of the settled Job                                           *)
(***************************************************************************)
\* C25: once every task of a Job has settled (completed or failed for
\* good) and no processor is running, the Job's processed equals the number
\* of its Items that are not PENDING and the Job is COMPLETED, whatever the
\* order in which the tasks settled; Items settled as ERROR by the catch
\* block are counted as well.
C25_SettledJobRolledUp ==
  ( /\ \A t \in DOMAIN tasks : tasks[t].state \in {"completed", "failed"}
    /\ \A w \in Slots : wk[w].pc = "idle" )
  => \A j \in 1..Len(jobs) :
       /\ jobs[j].processed = processedCount(products, j)
       /\ jobs[j].status = "COMPLETED"

\* C27: no task is dispatched more than attempts = 3 times; once its third
\* attempt has failed the task is not dispatched again and its Item is in
\* status ERROR.
C27_AttemptCeiling ==
  [][\A t \in DOMAIN tasks' :
       /\ t \in DOMAIN dispatched' => dispatched'[t] <= attempts
       /\ tasks'[t].attemptsMade >= attempts =>
            /\ tasks'[t].state = "failed"
            /\ t \in DOMAIN dispatched /\ dispatched'[t] = dispatched[t]
            /\ products'[tasks'[t].productId].status = "ERROR"]_vars

\* C28: at every moment at most 2 tasks are being executed by the Worker,
\* however many tasks are queued.
C28_AtMostTwoActive ==
  /\ Cardinality({t \in DOMAIN tasks : tasks[t].state = "active"}) <= 2
  /\ Cardinality({w \in DOMAIN wk : wk[w].pc # "idle"}) <= 2

\* two tasks are being executed while a third one waits
C28_Witness ==
  /\ Cardinality({t \in DOMAIN tasks : tasks[t].state = "active"}) = 2
  /\ \E t \in DOMAIN tasks : tasks[t].state = "waiting"
  /\ \A w \in Slots : wk[w].pc # "idle"

(***************************************************************************)
(* Properties of the ledger under concurrent consumption                   *)
(***************************************************************************)
\* C29: a step that is neither a reset nor a plan change (it leaves the
\* plan and the start of the billing period as they are) never makes
\* creditsUsed smaller, however the useCredits calls of concurrent requests
\* interleave.
C29_UsedNeverDecreases ==
  [][( /\ settings'.plan = settings.plan
       /\ settings'.billingPeriodStart = settings.billingPeriodStart )
     => settings'.creditsUsed >= settings.creditsUsed]_vars

\* C30: while the first billing period lasts, after any set of useCredits
\* calls that succeeded, concurrent ones included, creditsUsed and the
\* count of the period's Usage Record have both grown by exactly the sum of
\* the units those calls consumed.
C30_ConsumeExact ==
  LET units(r) == IF req[r].pc = "done" /\ req[r].result = "consumed"
                  THEN Cardinality(req[r].batch) ELSE 0
      sum[n \in 0..NumReqs] == IF n = 0 THEN 0 ELSE sum[n - 1] + units(n)
  IN  settings.billingPeriodStart = 0 =>
        \E s0 \in InitSettings :
          /\ settings.creditsUsed = s0.creditsUsed + sum[NumReqs]
          /\ usageCount = s0.creditsUsed + sum[NumReqs]

(***************************************************************************)
(* Properties of the fan-out                                               *)
(***************************************************************************)
\* C26: when the start-scan action has queued the tasks of its Job, every
\* Item of the Job has exactly one task, under the task id computed from
\* (jobId, itemId), created by this submission, and no two Items of the Job
\* have the same task id.
C26_FanOutComplete ==
  [][\A r \in Reqs :
       (req[r].pc = "queue" /\ req'[r].pc # "queue") =>
         LET j == req[r].job
             items == {p \in DOMAIN products : products[p].jobId = j}
         IN  /\ items = req[r].batch
             /\ \A p \in items :
                  /\ Cardinality({t \in DOMAIN tasks' :
                        tasks'[t].jobId = j /\ tasks'[t].productId = p}) = 1
                  /\ taskId(j, p) \in DOMAIN tasks'
                  /\ tasks'[taskId(j, p)].productId = p
                  /\ admitted'[taskId(j, p)] = 1
             /\ \A p \in items : \A q \in items \ {p} :
                  taskId(j, p) # taskId(j, q)]_vars

\* a Job of three Items has been queued: three tasks, one per Item
C26_Witness ==
  \E r \in Reqs :
    /\ req[r].pc = "useCreditsRead"
    /\ req[r].batch = Catalog
    /\ Cardinality({t \in DOMAIN tasks : tasks[t].jobId = req[r].job}) = 3
    /\ \A p \in Catalog : taskId(req[r].job, p) \in DOMAIN tasks

(***************************************************************************)
(* Properties of the Worker singleton                                      *)
(***************************************************************************)
\* C21: after any number of calls of startAnalysisWorker, the one made when
\* the module is loaded included, at most one Worker has been constructed
\* in the process, and every call that returned has returned that Worker.
C21_SingleWorker ==
  /\ Cardinality(proc.workers) <= 1
  /\ \A n \in 1..Len(proc.returned) :
       ( /\ proc.returned[n].fn = "startAnalysisWorker"
         /\ proc.returned[n].result # Thrown )
       => /\ proc.returned[n].result = proc.analysisWorker
          /\ proc.workers = {proc.returned[n].result}

\* the call at module load and three later calls have returned the Worker
C21_Witness ==
  /\ proc.loaded
  /\ Cardinality(proc.workers) = 1
  /\ Cardinality({n \in 1..Len(proc.returned) :
        /\ proc.returned[n].fn = "startAnalysisWorker"
        /\ proc.returned[n].result = proc.analysisWorker}) = 4

(***************************************************************************)
(* Properties of withRetry                                                 *)
(***************************************************************************)
\* C22: withRetry calls fn at most maxRetries times and ends: it returns at
\* the first call that succeeds; an error that is not retryable is rethrown
\* by the call that met it, after exactly one call when it is the first; a
\* retryable error that persists is rethrown after exactly maxRetries calls.
C22_WithRetryBounded ==
  /\ [](call.pc # "idle" =>
          LET n == Len(call.errors)
              retryable(k) == call.errors[k] \in RetryableMessages
          IN  /\ call.calls <= call.maxRetries
              /\ \A k \in 1..(n - 1) : retryable(k)
              /\ call.pc \in {"loop", "delay"} =>
                   call.calls = n /\ \A k \in 1..n : retryable(k)
              /\ call.pc = "returned" =>
                   call.calls = n + 1 /\ \A k \in 1..n : retryable(k)
              /\ call.pc = "thrown" =>
                   /\ call.calls = n
                   /\ n > 0 => call.lastError = call.errors[n]
                   /\ (n > 0 /\ ~retryable(1)) => call.calls = 1
                   /\ (\A k \in 1..n : retryable(k)) =>
                        call.calls = call.maxRetries)
  /\ <>(call.pc \in {"returned", "thrown"})

\* a timeout that persisted was rethrown after the third of three calls
C22_Witness ==
  /\ call.pc = "thrown"
  /\ call.maxRetries = 3 /\ call.calls = 3
  /\ call.errors = <<<<"T", "I", "M", "E", "O", "U", "T">>,
                     <<"T", "I", "M", "E", "O", "U", "T">>,
                     <<"T", "I", "M", "E", "O", "U", "T">>>>

(***************************************************************************)
(* Properties of fetchAllProducts                                          *)
(***************************************************************************)
\* C23: fetchAllProducts collects only products that have an image and
\* never more than limit of them; it follows hasNextPage, so that it
\* returns the shop's first products with an image, up to limit, in their
\* order; and it requests no page once limit products are collected, also
\* when the last page reported hasNextPage = true.
C23_FetchWithinLimit ==
  /\ [](call.pc # "idle" =>
          LET withImage == {k \in 1..call.size : k \notin call.noImage}
              n == Len(call.products)
          IN  /\ \A k \in 1..n : call.products[k] \in withImage
              /\ n <= call.limit
              /\ call.pc = "returned" =>
                   /\ n = Min(call.limit, Cardinality(withImage))
                   /\ \A k \in 1..n :
                        Cardinality({m \in withImage :
                                       m < call.products[k]}) = k - 1)
  /\ [][( /\ call.pc # "idle"
          /\ call'.requests > call.requests )
        => Len(call.products) < call.limit]_vars

\* limit 100 in a shop of 101 products with images: two pages requested,
\* 100 products returned, the second page having reported a next page
C23_Witness ==
  /\ call.pc = "returned"
  /\ call.size = 101 /\ call.limit = 100 /\ call.noImage = {}
  /\ Len(call.products) = 100
  /\ call.requests = 2
  /\ call.hasNextPage

(***************************************************************************)
(* Properties of toMetafieldInputs                                         *)
(***************************************************************************)
\* C24: for every metafields object, toMetafieldInputs returns exactly one
\* entry for each key that is a key of METAFIELD_MAPPINGS and has a value
\* other than null and undefined, no other entry, and every entry has the
\* namespace "custom".
C24_OneCustomEntryPerKnownKey ==
  call.pc = "returned" =>
    LET emitting == {k \in DOMAIN call.metafields :
                       /\ k \in MappedKeys
                       /\ call.metafields[k].t \notin {"null", "undefined"}}
    IN  /\ Len(call.inputs) = Cardinality(emitting)
        /\ \A k \in emitting :
             Cardinality({n \in 1..Len(call.inputs) :
                            call.inputs[n].key = k}) = 1
        /\ \A n \in 1..Len(call.inputs) : call.inputs[n].namespace = "custom"

(***************************************************************************)
(* Properties of the admission of a request                                *)
(***************************************************************************)
\* C31: a request that has reached its call of useCredits for n units has
\* made its hasAvailableCredits check before, for at least n units, and the
\* check found the credits available; no request reaches useCredits after a
\* check that denied.
C31_ConsumeAfterAllowedCheck ==
  \A r \in Reqs :
    req[r].pc \in {"useCreditsRead", "useCreditsWrite", "done"} =>
      /\ req[r].checked.allowed
      /\ req[r].checked.required >= Cardinality(req[r].batch)

(***************************************************************************)
(* Properties of the subscription webhook                                  *)
(***************************************************************************)
\* C32: the app_subscriptions/update webhook makes the shop PRO for status
\* ACTIVE and FREE for CANCELLED, EXPIRED and DECLINED; for every other
\* status, and for a payload without status, it leaves plan, creditLimit,
\* creditsUsed and the auto-sync setting as they are.
C32_ListedStatusesOnly ==
  [][\A status \in SubscriptionStatuses :
       SubscriptionUpdateOf(status) =>
         /\ status = "ACTIVE" =>
              settings'.plan = "PRO" /\ settings'.creditLimit = PRO_credits
         /\ status \in {"CANCELLED", "EXPIRED", "DECLINED"} =>
              settings'.plan = "FREE" /\ settings'.creditLimit = FREE_credits
         /\ status \notin {"ACTIVE", "CANCELLED", "EXPIRED", "DECLINED"} =>
              /\ settings'.plan = settings.plan
              /\ settings'.creditLimit = settings.creditLimit
              /\ settings'.creditsUsed = settings.creditsUsed
              /\ settings'.autoSyncNewProducts = settings.autoSyncNewProducts]_vars

\* a Free shop has been made PRO by the webhook, and a new period begun
C32_Witness ==
  /\ settings.plan = "PRO" /\ settings.creditLimit = PRO_credits
  /\ settings.creditsUsed = 0
  /\ settings.billingPeriodStart = 1
  /\ ~settings.autoSyncNewProducts

\* C36: the ACTIVE webhook delivered for a shop that is PRO already leaves
\* creditsUsed and billingPeriodStart as they are.
C36_UpgradeIdempotent ==
  [][(SubscriptionUpdateOf("ACTIVE") /\ settings.plan = "PRO") =>
       /\ settings'.creditsUsed = settings.creditsUsed
       /\ settings'.billingPeriodStart = settings.billingPeriodStart]_vars

(***************************************************************************)
(* Properties of syncPlanFromShopify                                       *)
(***************************************************************************)
\* C33: when syncPlanFromShopify has returned without an API error, the
\* shop's plan is PRO if and only if an ACTIVE subscription was reported,
\* and synced is true exactly when the plan was changed; when the plan
\* matched already, or the API call failed, the row is as it was before
\* the call, creditsUsed included, and synced is false.
C33_PlanFollowsSubscriptions ==
  (call.pc = "returned") =>
    LET active == "ACTIVE" \in call.subscriptions
        matched == (call.before.plan = "PRO") <=> active
    IN  /\ ~call.threw =>
             /\ settings.plan = "PRO" <=> active
             /\ call.result.plan = settings.plan
             /\ call.result.synced <=> settings.plan # call.before.plan
        /\ (call.threw \/ matched) =>
             /\ settings = call.before
             /\ ~call.result.synced
             /\ call.result.plan = call.before.plan

\* a Pro shop that has used credits loaded its billing page with its
\* subscription active: nothing changed
C33_Witness ==
  /\ call.pc = "returned" /\ ~call.threw
  /\ "ACTIVE" \in call.subscriptions
  /\ call.before.plan = "PRO" /\ call.before.creditsUsed = 60
  /\ settings = call.before
  /\ ~call.result.synced

(***************************************************************************)
(* The admission check against the consume step                            *)
(***************************************************************************)
\* C34: hasAvailableCredits(shop, n) reports allowed exactly when
\* useCredits(shop, n), run on the same ledger row, succeeds.
C34_CheckAgreesWithConsume ==
  \A c \in Callers :
    (ov[c].pc = "done" /\ ov[c].seen = ov[c].read)
      => (ov[c].check.allowed <=> ov[c].result = "consumed")

(***************************************************************************)
(* Scheduled work against the charge                                       *)
(***************************************************************************)
\* C35: a request that has left a Job with tasks in the queue has consumed
\* the credits of that Job: no finished request has a Job with tasks and a
\* rejected useCredits call.
C35_ScheduledWorkIsCharged ==
  \A r \in Reqs :
    ( /\ req[r].pc = "done"
      /\ req[r].job \in DOMAIN jobs
      /\ \E t \in DOMAIN tasks : tasks[t].jobId = req[r].job )
    => req[r].result = "consumed"

(***************************************************************************)
(* The status of a Job                                                     *)
(***************************************************************************)
\* C37: the status of a Job only moves forward along QUEUED, PROCESSING,
\* COMPLETED: a COMPLETED Job stays COMPLETED and no Job returns to QUEUED,
\* however the rollups of the workers and the retries interleave.
C37_JobStatusForward ==
  [][\A j \in 1..Len(jobs) :
       /\ jobs[j].status = "COMPLETED" => jobs'[j].status = "COMPLETED"
       /\ jobs[j].status = "PROCESSING" => jobs'[j].status # "QUEUED"]_vars

(***************************************************************************)
(* Properties of the sync: what SYNCED stands for                          *)
(***************************************************************************)
\* C38: an Item becomes SYNCED only when a write of a selected field group
\* was issued to the catalog for it and succeeded; a sync with no group
\* selected does not turn an Item SYNCED.
C38_SyncedAfterIssuedWrite ==
  [][\A p \in DOMAIN products :
       (products[p].status # "SYNCED" /\ products'[p].status = "SYNCED")
       => /\ sy.syncMetafields \/ sy.syncTags
          /\ \E w \in writes : w.productId = p /\ w.ok]_vars

\* C39: in every reachable state an Item has syncedAt set if and only if
\* its status is SYNCED.
C39_SyncedAtIffSynced ==
  \A p \in DOMAIN products :
    products[p].syncedAt # 0 <=> products[p].status = "SYNCED"

\* C40: a sync request addressed to a Job changes the status, syncedAt or
\* error only of Items of that Job; the Items of another Job whose ids are
\* in the request are left untouched.
C40_SyncWithinAddressedJob ==
  [][\A p \in DOMAIN products :
       (sy.pc # "idle" /\ products[p].jobId # sy.id)
       => /\ products'[p].status = products[p].status
          /\ products'[p].syncedAt = products[p].syncedAt
          /\ products'[p].error = products[p].error]_vars
====
